---- MODULE Spec2Model ----
(***************************************************************************)
(* A model of the future / setter rendezvous of rust-future.               *)
(*                                                                         *)
(* The repository holds two iterations of the shared-cell core:            *)
(*   "lib"  - src/src/lib.rs    : lock, callback and result slots behind   *)
(*            Arc; the second side takes the peer's contribution out with  *)
(*            unwrap_unsafe (Arc::try_unwrap).                             *)
(*   "flag" - src/src/future.rs : the same slots behind Holder, plus a     *)
(*            liveness flag inside the mutex that both Drop impls clear.   *)
(* The variable design selects the iteration a behaviour runs.             *)
(*                                                                         *)
(* Every thread runs a stack of frames; a frame is one Rust call in        *)
(* progress and its pc is the place in that call.  A callback runs in a    *)
(* frame pushed on top of the resolve / set_result frame that invokes it.  *)
(***************************************************************************)
EXTENDS Integers, Sequences, FiniteSets, TLC

\* ------------------------------------------------------------------ bounds
NThreads == 2
NCells   == 15
\* the longest chain of derived operations chosen freely, whose root setter
\* may be handed to another thread
MaxChain == 1

Threads == 1..NThreads
Cells   == 1..NCells
Main    == 1
NoThread == 0

\* ------------------------------------------------------------------ values
\* Result<A, E> with A = i64 and E = String; a String is a sequence of
\* character codes, the codes 0..9 being the digits '0'..'9'.
Ok(n)  == [ok |-> TRUE,  v |-> n, e |-> <<>>]
Err(s) == [ok |-> FALSE, v |-> 0, e |-> s]

RootInts == {0, 5}
RootStrs == {<<0>>, <<10, 11>>}
RootOutcomes == {Ok(n) : n \in RootInts} \cup {Err(s) : s \in RootStrs}

\* Option<T>: None is <<>>, Some(x) is <<x>>
None    == <<>>
Some(x) == <<x>>
IsSome(o) == o /= <<>>

\* ------------------------------------------------ the user functions of the
\* chain of test::transformations_are_respected_when_resolved
IsDigit(ch) == ch \in 0..9

\* s.parse::<i64>() is Ok for a non-empty string of digits
IsNumeric(s) == s /= <<>> /\ \A i \in 1..Len(s) : IsDigit(s[i])

RECURSIVE to_string(_)
\* n.to_string(), n >= 0: the decimal digits, most significant first
to_string(n) ==
    IF n < 10 THEN <<n>> ELSE to_string(n \div 10) \o <<n % 10>>

RECURSIVE Parse(_)
\* s.parse::<i64>().unwrap() for a numeric s
Parse(s) ==
    IF s = <<>> THEN 0
    ELSE 10 * Parse(SubSeq(s, 1, Len(s) - 1)) + s[Len(s)]

\* fn incr_string(s): format!("{}", s.parse::<i64>().unwrap() + 1)
incr_string(s) == to_string(Parse(s) + 1)

\* E2::into with E2 = E
Into(e) == e

Observers == {"on_completion", "on_success", "on_err"}

DerivedOps == {"map", "and_then", "transform", "map_err", "rescue", "handle",
               "and_thenf", "transformf", "rescuef"} \cup Observers

\* the operations whose user function is for a success, and for a failure
SuccessOnly == {"map", "and_then", "and_thenf"}
FailureOnly == {"map_err", "handle", "rescue", "rescuef"}

\* the chain of the test, in the order it is written
S4Chain == <<"map", "and_then", "transform", "map_err", "rescue", "handle",
             "and_thenf", "transformf", "rescuef">>

\* the operations of the chains chosen freely: one that maps Ok, one that
\* maps Err and may panic, one that resolves an inner Future (mapped with
\* into for Ok, as it is for Err)
FreeOps == <<"map", "handle", "and_thenf">>

\* a chain of the failure-only operations, then and_thenf, which makes a
\* failure of a success, then success-only operations
SkipChain == <<"map_err", "rescue", "rescuef", "handle", "and_thenf", "map",
               "and_then">>

\* a chain of the three observers
ObserverChain == <<"on_completion", "on_success", "on_err">>

\* the chains the main thread may build: the short ones, which are the
\* stretches of FreeOps of up to MaxChain operations, that of the test, and
\* the two above
Plans == UNION {{SubSeq(FreeOps, i, i + k - 1) : i \in 1..(Len(FreeOps) + 1 - k)} :
                    k \in 1..MaxChain}
           \cup {S4Chain, SkipChain, ObserverChain}

\* the closure an operation hands to resolve panics on r: inside the user
\* function (panic!, or unwrap of the parse of a string that is no number)
Panics(op, r) ==
    CASE op = "transform"  -> ~r.ok
      [] op = "transformf" -> r.ok \/ ~IsNumeric(r.e)
      [] op \in {"map_err", "rescue", "handle", "rescuef"} ->
             ~r.ok /\ ~IsNumeric(r.e)
      [] OTHER -> FALSE

\* what the closure of an operation makes of the upstream outcome r: for
\* map .. handle the Result handed to set_result, for and_thenf, transformf
\* and rescuef the Result the Future returned by the user function holds
OpResult(op, r) ==
    CASE op = "map"        -> IF r.ok THEN Ok(r.v + 1) ELSE Err(r.e)
      [] op = "and_then"   -> IF r.ok THEN Ok(r.v + 1) ELSE Err(r.e)
      [] op = "transform"  -> Err(to_string(r.v + 1))
      [] op = "map_err"    -> IF r.ok THEN Ok(r.v) ELSE Err(incr_string(r.e))
      [] op = "rescue"     -> IF r.ok THEN Ok(r.v) ELSE Err(Into(incr_string(r.e)))
      [] op = "handle"     -> IF r.ok THEN Ok(r.v) ELSE Ok(Parse(r.e) + 1)
      [] op = "and_thenf"  -> IF r.ok THEN Err(to_string(r.v + 1)) ELSE Err(r.e)
      [] op = "transformf" -> Err(incr_string(r.e))
      [] op = "rescuef"    -> IF r.ok THEN Ok(r.v) ELSE Ok(Parse(r.e) + 1)
      [] op = "into"       -> IF r.ok THEN Ok(r.v) ELSE Err(Into(r.e))
      [] op = "collect"    -> IF r.ok THEN Ok([i \in 1..Len(r.v) |-> r.v[i]])
                                      ELSE Err(r.e)
      [] OTHER             -> r

\* mutant of CallsUser: the closure calls the user function on every outcome
CallsUserAlways(op, r) == op \in DerivedOps

\* the match of the operation's closure has an arm for r that calls the
\* user function
CallsUser(op, r) ==
    CASE op \in {"map", "and_then", "and_thenf", "on_success"} -> r.ok
      [] op \in {"map_err", "rescue", "handle", "rescuef", "on_err"} -> ~r.ok
      [] op \in {"transform", "transformf", "on_completion"} -> TRUE
      [] OTHER -> FALSE

\* and_thenf and rescuef put .map_err(E2::into) on the Future the user
\* function returned; the other branch is done(..) as it is
NeedsInto(op, r) ==
    \/ op = "and_thenf" /\ r.ok
    \/ op = "rescuef" /\ ~r.ok

\* ---------------------------------------------------------------- closures
\* kind "terminal"  : a user callback handed to resolve; id names it
\* kind "send"      : the closure of await / await_safe, owning the Sender tx
\*                    of the channel of thread id
\* kind "transform" : |result| setter.set_result(f(result)), f that of fn,
\*                    setter that of cell s
\* kind "transformf": |result_a| f(result_a).resolve(|result_b| ..)
\* kind "forward"   : |result_b| setter.set_result(result_b)
\* on is the cell whose Future the closure was handed to
\* kind "observe"   : |result| { f(&result); setter.set_result(result) }
KindOf(op) ==
    CASE op \in {"and_thenf", "transformf", "rescuef"} -> "transformf"
      [] op \in Observers -> "observe"
      [] OTHER -> "transform"

\* cap: the cells of the Futures the user function inside has captured;
\* acc: the values it has captured
Closure(kind, on, id, fn, s) ==
    [kind |-> kind, on |-> on, id |-> id, fn |-> fn, s |-> s,
     cap |-> <<>>, acc |-> <<>>]
Terminal(c)  == Closure("terminal", c, c, "", 0)
SendTo(c, t) == Closure("send", c, t, "", 0)

\* ------------------------------------------------------------------ frames
Frame(op, c, pc, v, f) == [op |-> op, c |-> c, pc |-> pc, v |-> v, f |-> f]

VARIABLES
    design,     \* "lib" or "flag"
    nextCell,   \* the next cell new() allocates
    lock,       \* cell -> thread holding the Mutex, or NoThread
    poisoned,   \* cell -> the Mutex is poisoned
    alive,      \* cell -> Cell<bool> inside the Mutex (future.rs only)
    result,     \* cell -> Option<Box<Result<A, E>>>
    callback,   \* cell -> Option<Box<FnBox(Result<A, E>)>>
    rRefs,      \* cell -> the handles ("F", "S") holding the result Arc
    cRefs,      \* cell -> the handles ("F", "S") holding the callback Arc
    fOwner,     \* cell -> thread holding the idle Future, or NoThread
    sOwner,     \* cell -> thread holding the idle FutureSetter, or NoThread
    stack,      \* thread -> sequence of frames, the last one is running
    status,     \* thread -> "run", "unwind" (panicking) or "dead"
    aborted,    \* a panic during unwinding aborted the process
    chanTx,     \* thread -> Sender of the thread's channel: "none", "live", "dropped"
    chanMsg,    \* thread -> Option: the message buffered in the channel
    ret,        \* thread -> Option: what the last await / await_safe returned
    query,      \* thread -> Option: what the last is_resolved returned
    calls,      \* history: the invocations of terminal callbacks
    made,       \* history: cell -> the constructor: "", "new", "value", "err", "done",
                \*          "derived" (by a derived operation), "inner" (by a user function)
    ctorArg,    \* history: cell -> Option: the argument of value / err / done
    setArg,     \* history: cell -> Option: the outcome set_result was called with
    fUse,       \* history: cell -> the call that consumed the Future, or ""
    sUse,       \* history: cell -> the call that consumed the FutureSetter, or ""
    setLate,    \* history: cell -> the thread whose set_result began after the
                \*          Future's drop had ended, or NoThread
    plan,       \* the derived operations the main thread has yet to apply
    up,         \* history: cell -> the cell a derived operation was applied to
    opOf,       \* history: cell -> the derived operation that made it, or ""
    early,      \* history: cell -> the cell held a result (is_resolved) when
                \*          a derived operation was applied to its Future
    fnCalled,   \* history: the cells whose operation has called its user function
    inner       \* history: cell -> the cell of the Future that the user function
                \*          of transformf returned and that forwards to it, or 0

vars == <<design, nextCell, lock, poisoned, alive, result, callback, rRefs,
          cRefs, fOwner, sOwner, stack, status, aborted, chanTx, chanMsg,
          ret, query, calls, made, ctorArg, setArg, fUse, sUse, setLate,
          plan, up, opOf, early, fnCalled, inner>>

cellVars  == <<lock, poisoned, alive, result, callback, rRefs, cRefs>>
ownVars   == <<fOwner, sOwner>>
chanVars  == <<chanTx, chanMsg>>
histVars  == <<made, ctorArg, setArg, fUse, sUse, setLate, fnCalled>>
planVars  == <<plan, up, opOf, early, inner>>
\* what a step of the rendezvous itself never changes
fixedVars == <<design, nextCell, ret, histVars, planVars>>

\* ----------------------------------------------------------------- helpers
Depth(t)  == Len(stack[t])
Top(t)    == stack[t][Depth(t)]
Below(t)  == SubSeq(stack[t], 1, Depth(t) - 1)
Idle(t)   == status[t] = "run" /\ stack[t] = <<>> /\ ~aborted
Running(t) == status[t] /= "dead" /\ stack[t] /= <<>> /\ ~aborted

\* the frame on top becomes fr
SetTop(t, fr) == stack' = [stack EXCEPT ![t] = Below(t) \o <<fr>>]
\* the frame on top becomes fr and calls the frame g
SetTopPush(t, fr, g) == stack' = [stack EXCEPT ![t] = Below(t) \o <<fr, g>>]
Pop(t)        == stack' = [stack EXCEPT ![t] = Below(t)]
Push(t, g)    == stack' = [stack EXCEPT ![t] = stack[t] \o <<g>>]

\* some thread is inside a call of ops on cell c
InFlight(c, ops) ==
    \E t \in Threads : \E i \in 1..Len(stack[t]) :
        stack[t][i].c = c /\ stack[t][i].op \in ops

Side(fr) == IF fr.op \in {"resolve", "dropF"} THEN "F" ELSE "S"

\* where a handle's drop starts: future.rs has Drop impls that take the lock
HandleDropPc == IF design = "flag" THEN "dlock" ELSE "drop"
\* after the guard is released: the parameters are dropped, f before self
AfterUnlock(fr) == IF IsSome(fr.f) THEN "dropf" ELSE HandleDropPc

CleanupPcs == {"unlock", "dropf", "dlock", "dunlock", "drop", "end"}

\* -------------------------------------------------------------------- Init
Start ==
    /\ design \in {"lib", "flag"}
    /\ nextCell = 1
    /\ lock     = [c \in Cells |-> NoThread]
    /\ poisoned = [c \in Cells |-> FALSE]
    /\ alive    = [c \in Cells |-> FALSE]
    /\ result   = [c \in Cells |-> None]
    /\ callback = [c \in Cells |-> None]
    /\ rRefs    = [c \in Cells |-> {}]
    /\ cRefs    = [c \in Cells |-> {}]
    /\ fOwner   = [c \in Cells |-> NoThread]
    /\ sOwner   = [c \in Cells |-> NoThread]
    /\ stack    = [t \in Threads |-> <<>>]
    /\ status   = [t \in Threads |-> "run"]
    /\ aborted  = FALSE
    /\ chanTx   = [t \in Threads |-> "none"]
    /\ chanMsg  = [t \in Threads |-> None]
    /\ ret      = [t \in Threads |-> None]
    /\ query    = [t \in Threads |-> None]
    /\ calls    = <<>>
    /\ made     = [c \in Cells |-> ""]
    /\ ctorArg  = [c \in Cells |-> None]
    /\ setArg   = [c \in Cells |-> None]
    /\ fUse     = [c \in Cells |-> ""]
    /\ sUse     = [c \in Cells |-> ""]
    /\ setLate  = [c \in Cells |-> NoThread]
    /\ up       = [c \in Cells |-> 0]
    /\ opOf     = [c \in Cells |-> ""]
    /\ early    = [c \in Cells |-> FALSE]
    /\ fnCalled = {}
    /\ inner    = [c \in Cells |-> 0]

\* a program that uses one pair as it is
Init == Start /\ plan = <<>>

\* a program that builds a chain of derived operations on one pair
InitChain == Start /\ plan \in Plans

\* the operations of the chain the program builds, applied or not yet
ChainLen == Len(plan) + Cardinality({c \in Cells : opOf[c] \in DerivedOps})

\* ------------------------------------------------------------ constructors
\* new(): a fresh cell shared by one Future and one FutureSetter
NewCell(c) ==
    /\ nextCell' = c + 1
    /\ rRefs' = [rRefs EXCEPT ![c] = {"F", "S"}]
    /\ cRefs' = [cRefs EXCEPT ![c] = {"F", "S"}]
    /\ alive' = [alive EXCEPT ![c] = (design = "flag")]
    /\ UNCHANGED <<lock, poisoned, result, callback>>

\* the Futures the program makes itself: the arguments of join2 / join3, the
\* items of the iterator it collects (one for each round of the fold, none
\* for an empty iterator), or one
Roots ==
    IF plan = <<>> THEN 1
    ELSE CASE Head(plan) = "join3" -> 3
           [] Head(plan) = "join2" -> 2
           [] Head(plan) = "from_iter" ->
                 Cardinality({i \in DOMAIN plan : plan[i] = "fold"})
           [] OTHER -> 1

\* the program starts with one pair, or one for each input
New(t) ==
    /\ t = Main /\ Idle(t)
    /\ nextCell <= Roots
    /\ NewCell(nextCell)
    /\ fOwner' = [fOwner EXCEPT ![nextCell] = t]
    /\ sOwner' = [sOwner EXCEPT ![nextCell] = t]
    /\ made'   = [made EXCEPT ![nextCell] = "new"]
    /\ UNCHANGED <<design, planVars, stack, status, aborted, chanVars, ret, query, calls,
                   ctorArg, fnCalled, setArg, fUse, sUse, setLate>>

\* the argument of a constructor, as the history keeps it
CtorArg(n, s, r) == [n |-> n, s |-> s, r |-> r]

\* mutant of Construct: the Future is returned without set_result
ConstructUnset(t, ctor, arg, r) ==
    /\ t = Main /\ Idle(t)
    /\ nextCell <= Roots
    /\ NewCell(nextCell)
    /\ made'    = [made EXCEPT ![nextCell] = ctor]
    /\ ctorArg' = [ctorArg EXCEPT ![nextCell] = Some(arg)]
    /\ sUse'    = [sUse EXCEPT ![nextCell] = "drop"]
    /\ stack'   = [stack EXCEPT ![t] =
                     << Frame("done", nextCell, "ret", None, None),
                        Frame("dropS", nextCell, HandleDropPc, None, None) >>]
    /\ UNCHANGED <<design, planVars, ownVars, status, aborted, chanVars, ret, query,
                   calls, fUse, setLate, setArg, fnCalled>>

\* done(result): new(), setter.set_result(result), then the Future is returned
Construct(t, ctor, arg, r) ==
    /\ t = Main /\ Idle(t)
    /\ nextCell <= Roots
    /\ NewCell(nextCell)
    /\ made'    = [made EXCEPT ![nextCell] = ctor]
    /\ ctorArg' = [ctorArg EXCEPT ![nextCell] = Some(arg)]
    /\ setArg'  = [setArg EXCEPT ![nextCell] = Some(r)]
    /\ sUse'    = [sUse EXCEPT ![nextCell] = "set_result"]
    /\ stack'   = [stack EXCEPT ![t] =
                     << Frame("done", nextCell, "ret", None, None),
                        Frame("set_result", nextCell, "lock", Some(r), None) >>]
    /\ UNCHANGED <<design, planVars, ownVars, status, aborted, chanVars, ret, query,
                   calls, fUse, setLate, fnCalled>>

done(t, r)  == Construct(t, "done", CtorArg(0, <<>>, r), r)
\* value(a) is done(Ok(a))
value(t, a) == Construct(t, "value", CtorArg(a, <<>>, Ok(0)), Ok(a))
\* err(e) is done(Err(e))
err(t, e)   == Construct(t, "err", CtorArg(0, e, Ok(0)), Err(e))

DoneRet(t) ==
    /\ Running(t) /\ status[t] = "run"
    /\ Top(t).op \in {"done", "derive"} /\ Top(t).pc = "ret"
    /\ fOwner' = [fOwner EXCEPT ![Top(t).c] = t]
    /\ Pop(t)
    /\ UNCHANGED <<cellVars, fixedVars, sOwner, status, aborted, chanVars,
                   query, calls>>

\* run(f): new(), thread::spawn(move || setter.set_result(f())), and the
\* Future is returned; r is what f returns on the worker
run(t, r) ==
    /\ t = Main /\ Idle(t)
    /\ nextCell = 1
    /\ NewCell(nextCell)
    /\ made'   = [made EXCEPT ![nextCell] = "run"]
    /\ fOwner' = [fOwner EXCEPT ![nextCell] = t]
    /\ setArg' = [setArg EXCEPT ![nextCell] = Some(r)]
    /\ sUse'   = [sUse EXCEPT ![nextCell] = "set_result"]
    /\ \E w \in Threads \ {t} :
          /\ stack[w] = <<>> /\ status[w] = "run"
          /\ \A v \in Threads \ {t} : v >= w
          /\ stack' = [stack EXCEPT ![w] =
                         <<Frame("set_result", nextCell, "lock", Some(r), None)>>]
    /\ UNCHANGED <<design, planVars, sOwner, status, aborted, chanVars, ret,
                   query, calls, ctorArg, fUse, setLate, fnCalled>>

\* thread::spawn(move || setter.set_result(..)): the setter moves to the
\* worker, which is the first thread after Main (a program has one worker)
Spawn(c) ==
    /\ Idle(Main)
    /\ ChainLen <= MaxChain
    /\ sOwner[c] = Main
    /\ \E w \in Threads \ {Main} :
          /\ status[w] = "run"
          /\ \A v \in Threads \ {Main} : v >= w
          /\ sOwner' = [sOwner EXCEPT ![c] = w]
    /\ UNCHANGED <<cellVars, fixedVars, fOwner, stack, status, aborted,
                   chanVars, query, calls>>

\* ------------------------------------------------- calls a thread can start
StartResolve(t, c) ==
    /\ Idle(t) /\ plan = <<>>
    /\ fOwner[c] = t
    /\ fOwner' = [fOwner EXCEPT ![c] = NoThread]
    /\ fUse'   = [fUse EXCEPT ![c] = "resolve"]
    /\ Push(t, Frame("resolve", c, "lock", None, Some(Terminal(c))))
    /\ UNCHANGED <<cellVars, design, planVars, nextCell, sOwner, status, aborted,
                   chanVars, ret, query, calls, made, ctorArg, fnCalled, setArg, sUse,
                   setLate>>

\* resolve_success(f) / resolve_err(f): resolve with a closure that calls f
\* on one kind of outcome only
StartResolveFiltered(t, c, op) ==
    /\ Idle(t) /\ plan = <<>>
    /\ fOwner[c] = t
    /\ fOwner' = [fOwner EXCEPT ![c] = NoThread]
    /\ fUse'   = [fUse EXCEPT ![c] = op]
    /\ Push(t, Frame("resolve", c, "lock", None,
                     Some(Closure("filter", c, c, op, 0))))
    /\ UNCHANGED <<cellVars, design, planVars, nextCell, sOwner, status, aborted,
                   chanVars, ret, query, calls, made, ctorArg, fnCalled, setArg, sUse,
                   setLate>>

StartSetResult(t, c, r) ==
    /\ Idle(t)
    /\ sOwner[c] = t
    /\ sOwner'  = [sOwner EXCEPT ![c] = NoThread]
    /\ sUse'    = [sUse EXCEPT ![c] = "set_result"]
    /\ setArg'  = [setArg EXCEPT ![c] = Some(r)]
    /\ setLate' = [setLate EXCEPT ![c] =
                      IF fUse[c] = "drop" /\ ~InFlight(c, {"dropF"})
                        THEN t ELSE NoThread]
    /\ Push(t, Frame("set_result", c, "lock", Some(r), None))
    /\ UNCHANGED <<cellVars, design, planVars, nextCell, fOwner, status, aborted,
                   chanVars, ret, query, calls, made, ctorArg, fnCalled, fUse>>

StartDropF(t, c) ==
    /\ Idle(t) /\ plan = <<>>
    /\ fOwner[c] = t
    /\ fOwner' = [fOwner EXCEPT ![c] = NoThread]
    /\ fUse'   = [fUse EXCEPT ![c] = "drop"]
    /\ Push(t, Frame("dropF", c, HandleDropPc, None, None))
    /\ UNCHANGED <<cellVars, design, planVars, nextCell, sOwner, status, aborted,
                   chanVars, ret, query, calls, made, ctorArg, fnCalled, setArg, sUse,
                   setLate>>

StartDropS(t, c) ==
    /\ Idle(t)
    /\ sOwner[c] = t
    /\ sOwner' = [sOwner EXCEPT ![c] = NoThread]
    /\ sUse'   = [sUse EXCEPT ![c] = "drop"]
    /\ Push(t, Frame("dropS", c, HandleDropPc, None, None))
    /\ UNCHANGED <<cellVars, design, planVars, nextCell, fOwner, status, aborted,
                   chanVars, ret, query, calls, made, ctorArg, fnCalled, setArg, fUse,
                   setLate>>

\* is_resolved(&self) exists in lib.rs only; the Future stays with the caller
StartIsResolved(t, c) ==
    /\ Idle(t)
    /\ design = "lib"
    /\ fOwner[c] = t
    /\ query' = [query EXCEPT ![t] = None]
    /\ Push(t, Frame("is_resolved", c, "lock", None, None))
    /\ UNCHANGED <<cellVars, fixedVars, ownVars, status, aborted, chanVars,
                   calls>>

\* await(f) / await_safe(f): channel(), f.resolve(move |result| tx.send(result)),
\* then rx.recv()
StartAwait(t, c, op) ==
    /\ Idle(t) /\ plan = <<>>
    /\ fOwner[c] = t
    /\ fOwner' = [fOwner EXCEPT ![c] = NoThread]
    /\ fUse'   = [fUse EXCEPT ![c] = op]
    /\ chanTx'  = [chanTx EXCEPT ![t] = "live"]
    /\ chanMsg' = [chanMsg EXCEPT ![t] = None]
    /\ ret'     = [ret EXCEPT ![t] = None]
    /\ stack'   = [stack EXCEPT ![t] =
                     << Frame(op, c, "recv", None, None),
                        Frame("resolve", c, "lock", None, Some(SendTo(c, t))) >>]
    /\ UNCHANGED <<cellVars, design, planVars, nextCell, sOwner, status, aborted, query,
                   calls, made, ctorArg, fnCalled, setArg, sUse, setLate>>

\* ------------------------------------------------------ derived operations
\* transform / transformf and the operations written with them: new(), then
\* self.resolve(closure owning the new setter), then the new Future is returned
Derive(t, c) ==
    /\ Idle(t) /\ plan /= <<>>
    /\ fOwner[c] = t
    /\ nextCell \in Cells
    /\ LET op == Head(plan)
           n  == nextCell
       IN  /\ NewCell(n)
           /\ fOwner' = [fOwner EXCEPT ![c] = NoThread]
           /\ fUse'   = [fUse EXCEPT ![c] = op]
           /\ made'   = [made EXCEPT ![n] = "derived"]
           /\ up'     = [up EXCEPT ![n] = c]
           /\ opOf'   = [opOf EXCEPT ![n] = op]
           /\ early'  = [early EXCEPT ![c] = IsSome(result[c])]
           /\ plan'   = Tail(plan)
           /\ stack'  = [stack EXCEPT ![t] =
                 << Frame("derive", n, "ret", None, None),
                    Frame("resolve", c, "lock", None,
                          Some(Closure(KindOf(op), c, 0, op, n))) >>]
    /\ UNCHANGED <<design, sOwner, status, aborted, chanVars, ret, query,
                   calls, ctorArg, fnCalled, setArg, sUse, setLate, inner>>

\* the thread whose set_result on c begins now, if the Future is gone already
SetLateOf(c, t) ==
    IF fUse[c] = "drop" /\ ~InFlight(c, {"dropF"}) THEN t ELSE NoThread

\* setter.set_result(x) inside the closure running in frame fr
SetInClosure(t, fr, s, x) ==
    /\ sUse'    = [sUse EXCEPT ![s] = "set_result"]
    /\ setArg'  = [setArg EXCEPT ![s] = Some(x)]
    /\ setLate' = [setLate EXCEPT ![s] = SetLateOf(s, t)]
    /\ SetTopPush(t, [fr EXCEPT !.pc = "end"],
                  Frame("set_result", s, "lock", Some(x), None))

\* mutant of CallTransform: the upstream result is handed on as it is
CallTransformIdentity(t) ==
    /\ Running(t) /\ status[t] = "run"
    /\ Top(t).op = "call" /\ Top(t).pc = "start"
    /\ Top(t).f[1].kind = "transform"
    /\ SetInClosure(t, Top(t), Top(t).f[1].s, Top(t).v[1])
    /\ UNCHANGED <<cellVars, design, nextCell, ret, planVars, made, ctorArg, fnCalled,
                   fUse, ownVars, status, aborted, chanVars, query, calls>>

\* |result| setter.set_result(f(result))
CallTransform(t) ==
    /\ Running(t) /\ status[t] = "run"
    /\ Top(t).op = "call" /\ Top(t).pc = "start"
    /\ Top(t).f[1].kind = "transform"
    /\ LET fr == Top(t)
           k  == fr.f[1]
           r  == fr.v[1]
       IN  /\ fnCalled' = IF CallsUser(k.fn, r) THEN fnCalled \cup {k.s}
                                                 ELSE fnCalled
           /\ IF Panics(k.fn, r)
                THEN /\ status' = [status EXCEPT ![t] = "unwind"]
                     /\ UNCHANGED <<stack, sUse, setArg, setLate>>
                ELSE /\ SetInClosure(t, fr, k.s, OpResult(k.fn, r))
                     /\ UNCHANGED status
    /\ UNCHANGED <<cellVars, design, nextCell, ret, planVars, made, ctorArg,
                   fUse, ownVars, aborted, chanVars, query, calls>>

\* mutant of CallObserve: what the observer saw is lost, Ok(0) is handed on
CallObserveForgets(t) ==
    /\ Running(t) /\ status[t] = "run"
    /\ Top(t).op = "call" /\ Top(t).pc = "start"
    /\ Top(t).f[1].kind = "observe"
    /\ fnCalled' = fnCalled \cup {Top(t).f[1].s}
    /\ SetInClosure(t, Top(t), Top(t).f[1].s, Ok(0))
    /\ UNCHANGED <<cellVars, design, nextCell, ret, planVars, made, ctorArg,
                   fUse, ownVars, status, aborted, chanVars, query, calls>>

\* mutant of CallObserve: the outcome is published before the observer runs
CallObservePublishing(t) ==
    /\ Running(t) /\ status[t] = "run"
    /\ Top(t).op = "call" /\ Top(t).pc = "start"
    /\ Top(t).f[1].kind = "observe"
    /\ SetInClosure(t, Top(t), Top(t).f[1].s, Top(t).v[1])
    /\ UNCHANGED <<cellVars, design, nextCell, ret, planVars, made, ctorArg,
                   fnCalled, fUse, ownVars, status, aborted, chanVars, query,
                   calls>>

\* |result| { f(&result); setter.set_result(result) }, f the match of
\* on_success / on_err or the observer itself
CallObserve(t) ==
    /\ Running(t) /\ status[t] = "run"
    /\ Top(t).op = "call" /\ Top(t).pc = "start"
    /\ Top(t).f[1].kind = "observe"
    /\ LET fr == Top(t)
           k  == fr.f[1]
           r  == fr.v[1]
       IN  /\ fnCalled' = IF CallsUser(k.fn, r) THEN fnCalled \cup {k.s}
                                                 ELSE fnCalled
           /\ SetInClosure(t, fr, k.s, r)
    /\ UNCHANGED <<cellVars, design, nextCell, ret, planVars, made, ctorArg,
                   fUse, ownVars, status, aborted, chanVars, query, calls>>

\* |result_b| setter.set_result(result_b)
CallForward(t) ==
    /\ Running(t) /\ status[t] = "run"
    /\ Top(t).op = "call" /\ Top(t).pc = "start"
    /\ Top(t).f[1].kind = "forward"
    /\ SetInClosure(t, Top(t), Top(t).f[1].s, Top(t).v[1])
    /\ UNCHANGED <<cellVars, design, nextCell, ret, planVars, made, ctorArg, fnCalled,
                   fUse, ownVars, status, aborted, chanVars, query, calls>>

\* |result_a| f(result_a)...: the user function runs and makes its Future
\* with value / err / done, that is new() and set_result
CallTransformF(t) ==
    /\ Running(t) /\ status[t] = "run"
    /\ Top(t).op = "call" /\ Top(t).pc = "start"
    /\ Top(t).f[1].kind = "transformf"
    /\ LET fr == Top(t)
           k  == fr.f[1]
           r  == fr.v[1]
           n  == nextCell
           x  == OpResult(k.fn, r)
       IN  /\ fnCalled' = IF CallsUser(k.fn, r) THEN fnCalled \cup {k.s}
                                                 ELSE fnCalled
           /\ IF Panics(k.fn, r)
             THEN /\ status' = [status EXCEPT ![t] = "unwind"]
                  /\ UNCHANGED <<cellVars, nextCell, made, setArg, sUse, stack>>
             ELSE /\ n \in Cells
                  /\ NewCell(n)
                  /\ made'   = [made EXCEPT ![n] = "inner"]
                  /\ setArg' = [setArg EXCEPT ![n] = Some(x)]
                  /\ sUse'   = [sUse EXCEPT ![n] = "set_result"]
                  /\ SetTopPush(t, [fr EXCEPT !.pc = "made", !.c = n],
                                Frame("set_result", n, "lock", Some(x), None))
                  /\ UNCHANGED status
    /\ UNCHANGED <<design, ret, planVars, ctorArg, fUse, setLate, ownVars,
                   aborted, chanVars, query, calls>>

\* the closure |result_b| setter.set_result(result_b) is handed to the
\* Future of cell c
ResolveForward(t, fr, c) ==
    /\ fUse' = [fUse EXCEPT ![c] = "forward"]
    /\ inner' = [inner EXCEPT ![fr.f[1].s] = c]
    /\ SetTopPush(t, [fr EXCEPT !.pc = "end"],
                  Frame("resolve", c, "lock", None,
                        Some(Closure("forward", c, 0, "", fr.f[1].s))))

\* the user function has returned its Future: and_thenf and rescuef put
\* .map_err(E2::into) on it, the others resolve it at once
CallInnerMade(t) ==
    /\ Running(t) /\ status[t] = "run"
    /\ Top(t).op = "call" /\ Top(t).pc = "made"
    /\ LET fr == Top(t)
           k  == fr.f[1]
           ci == fr.c
           n  == nextCell
       IN  IF NeedsInto(k.fn, fr.v[1])
             THEN /\ n \in Cells
                  /\ NewCell(n)
                  /\ made' = [made EXCEPT ![n] = "derived"]
                  /\ up'   = [up EXCEPT ![n] = ci]
                  /\ opOf' = [opOf EXCEPT ![n] = "into"]
                  /\ fUse' = [fUse EXCEPT ![ci] = "map_err"]
                  /\ SetTopPush(t, [fr EXCEPT !.pc = "mapped", !.c = n],
                                Frame("resolve", ci, "lock", None,
                                      Some(Closure("transform", ci, 0, "into", n))))
                  /\ UNCHANGED inner
             ELSE /\ ResolveForward(t, fr, ci)
                  /\ UNCHANGED <<cellVars, nextCell, made, up, opOf>>
    /\ UNCHANGED <<design, ret, plan, early, ctorArg, fnCalled, setArg, sUse,
                   setLate, ownVars, status, aborted, chanVars, query, calls>>

\* mutant of CallInnerMapped: the setter is resolved at once with the
\* upstream outcome instead of waiting for the Future of the user function
CallInnerMappedEager(t) ==
    /\ Running(t) /\ status[t] = "run"
    /\ Top(t).op = "call" /\ Top(t).pc = "mapped"
    /\ SetInClosure(t, Top(t), Top(t).f[1].s, Top(t).v[1])
    /\ UNCHANGED <<cellVars, design, nextCell, ret, planVars, made, ctorArg,
                   fnCalled, fUse, ownVars, status, aborted, chanVars, query,
                   calls>>

\* map_err has returned: .resolve(|result_b| setter.set_result(result_b))
CallInnerMapped(t) ==
    /\ Running(t) /\ status[t] = "run"
    /\ Top(t).op = "call" /\ Top(t).pc = "mapped"
    /\ ResolveForward(t, Top(t), Top(t).c)
    /\ UNCHANGED <<cellVars, design, nextCell, ret, plan, up, opOf, early, made,
                   ctorArg, fnCalled,
                   setArg, sUse, setLate, ownVars, status, aborted, chanVars,
                   query, calls>>

\* ---------------------------------------------------------- join and collect
\* the closure and_thenf makes of a user function that owns the Futures cap
\* and the values acc: |a| fb.and_thenf(..) / |a| fb.map(..) of join ("joinf"),
\* |successes| next.transform(..) of from_iter ("collectf")
Capturing(kind, on, s, cap, acc) ==
    [Closure(kind, on, 0, "and_thenf", s) EXCEPT !.cap = cap, !.acc = acc]

\* the closure transform makes of |b| (a, b) under map, or of the match of
\* from_iter that pushes onto successes: the value goes behind acc
Appending(op, on, s, acc) == [Closure("append", on, 0, op, s) EXCEPT !.acc = acc]

\* the operation the user function inside closure k applies to the first
\* Future it owns
InnerOp(k) ==
    IF k.kind = "collectf" THEN "transform"
    ELSE IF Len(k.cap) > 1 THEN "and_thenf" ELSE "map"

\* the closure that operation hands to resolve, a the value the user
\* function was called with and n the new cell
InnerClosure(k, a, n) ==
    IF k.kind = "collectf"
      THEN Appending("transform", Head(k.cap), n, a)
      ELSE IF Len(k.cap) > 1
             THEN Capturing("joinf", Head(k.cap), n, Tail(k.cap),
                            Append(k.acc, a))
             ELSE Appending("map", Head(k.cap), n, Append(k.acc, a))

\* mutant of Join: the nest of and_thenf starts from the last argument
JoinBackwards(t) ==
    /\ t = Main /\ Idle(t)
    /\ plan /= <<>> /\ Head(plan) \in {"join2", "join3"}
    /\ nextCell = Roots + 1
    /\ \A c \in 1..Roots : fOwner[c] = t
    /\ LET n == nextCell
       IN  /\ NewCell(n)
           /\ fOwner' = [c \in Cells |-> IF c <= Roots THEN NoThread ELSE fOwner[c]]
           /\ fUse'   = [fUse EXCEPT ![Roots] = "and_thenf"]
           /\ made'   = [made EXCEPT ![n] = "derived"]
           /\ up'     = [up EXCEPT ![n] = Roots]
           /\ opOf'   = [opOf EXCEPT ![n] = "and_thenf"]
           /\ early'  = [early EXCEPT ![Roots] = IsSome(result[Roots])]
           /\ plan'   = Tail(plan)
           /\ stack'  = [stack EXCEPT ![t] =
                 << Frame("derive", n, "ret", None, None),
                    Frame("resolve", Roots, "lock", None,
                          Some(Capturing("joinf", Roots, n,
                                         [i \in 1..(Roots - 1) |-> Roots - i], <<>>))) >>]
    /\ UNCHANGED <<design, sOwner, status, aborted, chanVars, ret, query,
                   calls, ctorArg, fnCalled, setArg, sUse, setLate, inner>>

\* join2(fa, fb) / join3(fa, fb, fc): fa.and_thenf(|a| ..), the closure owning
\* the other Futures
Join(t) ==
    /\ t = Main /\ Idle(t)
    /\ plan /= <<>> /\ Head(plan) \in {"join2", "join3"}
    /\ nextCell = Roots + 1
    /\ \A c \in 1..Roots : fOwner[c] = t
    /\ LET n == nextCell
       IN  /\ NewCell(n)
           /\ fOwner' = [c \in Cells |-> IF c <= Roots THEN NoThread ELSE fOwner[c]]
           /\ fUse'   = [fUse EXCEPT ![1] = "and_thenf"]
           /\ made'   = [made EXCEPT ![n] = "derived"]
           /\ up'     = [up EXCEPT ![n] = 1]
           /\ opOf'   = [opOf EXCEPT ![n] = "and_thenf"]
           /\ early'  = [early EXCEPT ![1] = IsSome(result[1])]
           /\ plan'   = Tail(plan)
           /\ stack'  = [stack EXCEPT ![t] =
                 << Frame("derive", n, "ret", None, None),
                    Frame("resolve", 1, "lock", None,
                          Some(Capturing("joinf", 1, n,
                                         [i \in 1..(Roots - 1) |-> i + 1], <<>>))) >>]
    /\ UNCHANGED <<design, sOwner, status, aborted, chanVars, ret, query,
                   calls, ctorArg, fnCalled, setArg, sUse, setLate, inner>>

\* mutant of VecNew: the fold starts from a Future whose setter is dropped
\* without set_result
VecNewUnset(t) ==
    /\ t = Main /\ Idle(t)
    /\ plan /= <<>> /\ Head(plan) = "from_iter"
    /\ nextCell = Roots + 1
    /\ LET n == nextCell
       IN  /\ NewCell(n)
           /\ made'   = [made EXCEPT ![n] = "vec"]
           /\ sUse'   = [sUse EXCEPT ![n] = "drop"]
           /\ plan'   = Tail(plan)
           /\ stack'  = [stack EXCEPT ![t] =
                 << Frame("done", n, "ret", None, None),
                    Frame("dropS", n, HandleDropPc, None, None) >>]
    /\ UNCHANGED <<design, ownVars, status, aborted, chanVars, ret, query,
                   calls, ctorArg, fUse, setLate, fnCalled, up, opOf, early,
                   inner, setArg>>

\* from_iter: the fold starts from value(vec![])
VecNew(t) ==
    /\ t = Main /\ Idle(t)
    /\ plan /= <<>> /\ Head(plan) = "from_iter"
    /\ nextCell = Roots + 1
    /\ LET n == nextCell
       IN  /\ NewCell(n)
           /\ made'   = [made EXCEPT ![n] = "vec"]
           /\ setArg' = [setArg EXCEPT ![n] = Some(Ok(<<>>))]
           /\ sUse'   = [sUse EXCEPT ![n] = "set_result"]
           /\ plan'   = Tail(plan)
           /\ stack'  = [stack EXCEPT ![t] =
                 << Frame("done", n, "ret", None, None),
                    Frame("set_result", n, "lock", Some(Ok(<<>>)), None) >>]
    /\ UNCHANGED <<design, ownVars, status, aborted, chanVars, ret, query,
                   calls, ctorArg, fUse, setLate, fnCalled, up, opOf, early,
                   inner>>

\* the items of the iterator the fold has not taken yet
Items == {c \in Cells : made[c] = "new" /\ fOwner[c] = Main}

\* from_iter: one round of the fold, acc.and_thenf(move |successes| ..), the
\* closure owning the item next
FoldOn(t, acc, next) ==
    /\ t = Main /\ Idle(t)
    /\ plan /= <<>> /\ Head(plan) = "fold"
    /\ fOwner[acc] = t /\ acc \notin Items
    /\ nextCell \in Cells
    /\ LET n == nextCell
       IN  /\ NewCell(n)
           /\ fOwner' = [fOwner EXCEPT ![acc] = NoThread, ![next] = NoThread]
           /\ fUse'   = [fUse EXCEPT ![acc] = "and_thenf"]
           /\ made'   = [made EXCEPT ![n] = "derived"]
           /\ up'     = [up EXCEPT ![n] = acc]
           /\ opOf'   = [opOf EXCEPT ![n] = "and_thenf"]
           /\ early'  = [early EXCEPT ![acc] = IsSome(result[acc])]
           /\ plan'   = Tail(plan)
           /\ stack'  = [stack EXCEPT ![t] =
                 << Frame("derive", n, "ret", None, None),
                    Frame("resolve", acc, "lock", None,
                          Some(Capturing("collectf", acc, n, <<next>>, <<>>))) >>]
    /\ UNCHANGED <<design, sOwner, status, aborted, chanVars, ret, query,
                   calls, ctorArg, fnCalled, setArg, sUse, setLate, inner>>

Lowest(S) == CHOOSE c \in S : \A d \in S : c <= d

\* mutant of FoldStep: the iterator is taken from its end
FoldStepBackwards(t, acc) ==
    /\ Items /= {}
    /\ FoldOn(t, acc, CHOOSE c \in Items : \A d \in Items : d <= c)

\* the iterator yields its items in order
FoldStep(t, acc) == Items /= {} /\ FoldOn(t, acc, Lowest(Items))

\* from_iter: .map(|successes| successes.into_iter().collect::<F>())
CollectMap(t, acc) ==
    /\ t = Main /\ Idle(t)
    /\ plan /= <<>> /\ Head(plan) = "collect"
    /\ fOwner[acc] = t
    /\ nextCell \in Cells
    /\ LET n == nextCell
       IN  /\ NewCell(n)
           /\ fOwner' = [fOwner EXCEPT ![acc] = NoThread]
           /\ fUse'   = [fUse EXCEPT ![acc] = "map"]
           /\ made'   = [made EXCEPT ![n] = "derived"]
           /\ up'     = [up EXCEPT ![n] = acc]
           /\ opOf'   = [opOf EXCEPT ![n] = "collect"]
           /\ early'  = [early EXCEPT ![acc] = IsSome(result[acc])]
           /\ plan'   = Tail(plan)
           /\ stack'  = [stack EXCEPT ![t] =
                 << Frame("derive", n, "ret", None, None),
                    Frame("resolve", acc, "lock", None,
                          Some(Closure("transform", acc, 0, "collect", n))) >>]
    /\ UNCHANGED <<design, sOwner, status, aborted, chanVars, ret, query,
                   calls, ctorArg, fnCalled, setArg, sUse, setLate, inner>>

\* the frames that drop the Futures of the cells cap, the first one first
DropFrames(cap) ==
    [i \in 1..Len(cap) |->
        Frame("dropF", cap[Len(cap) + 1 - i], HandleDropPc, None, None)]

\* the closure of and_thenf runs with a user function that owns Futures:
\* Ok(a) => f(a).map_err(E2::into), f applying its operation to the first
\* Future it owns; Err(e) => done(Err(e)), and f is dropped unused at the
\* end of the closure, with the Futures it owns; arm is the set of the
\* values of is_ok() that take the first arm
Capture(t, arm) ==
    /\ Running(t) /\ status[t] = "run"
    /\ Top(t).op = "call" /\ Top(t).pc = "start"
    /\ Top(t).f[1].kind \in {"joinf", "collectf"}
    /\ nextCell \in Cells
    /\ LET fr   == Top(t)
           k    == fr.f[1]
           r    == fr.v[1]
           n    == nextCell
           next == Head(k.cap)
           used == Some([k EXCEPT !.cap = <<>>])
       IN  /\ NewCell(n)
           /\ IF r.ok \in arm
                THEN /\ fnCalled' = fnCalled \cup {k.s}
                     /\ made'   = [made EXCEPT ![n] = "derived"]
                     /\ up'     = [up EXCEPT ![n] = next]
                     /\ opOf'   = [opOf EXCEPT ![n] = InnerOp(k)]
                     /\ early'  = [early EXCEPT ![next] = IsSome(result[next])]
                     /\ fUse'   = [c \in Cells |->
                                     IF c = next THEN InnerOp(k)
                                     ELSE IF \E i \in 2..Len(k.cap) : k.cap[i] = c
                                            THEN "captured" ELSE fUse[c]]
                     /\ stack'  = [stack EXCEPT ![t] = Below(t) \o
                           << [fr EXCEPT !.pc = "made", !.c = n, !.f = used],
                              Frame("resolve", next, "lock", None,
                                    Some(InnerClosure(k, r.v, n))) >>]
                     /\ UNCHANGED <<setArg, sUse>>
                ELSE /\ made'   = [made EXCEPT ![n] = "inner"]
                     /\ setArg' = [setArg EXCEPT ![n] = Some(Err(r.e))]
                     /\ sUse'   = [sUse EXCEPT ![n] = "set_result"]
                     /\ fUse'   = [c \in Cells |->
                                     IF \E i \in 1..Len(k.cap) : k.cap[i] = c
                                       THEN "drop" ELSE fUse[c]]
                     /\ stack'  = [stack EXCEPT ![t] = Below(t) \o
                           <<[fr EXCEPT !.pc = "made", !.c = n, !.f = used]>>
                           \o DropFrames(k.cap)
                           \o <<Frame("set_result", n, "lock", Some(Err(r.e)), None)>>]
                     /\ UNCHANGED <<fnCalled, up, opOf, early>>
    /\ UNCHANGED <<design, ret, plan, inner, ctorArg, setLate, ownVars, status,
                   aborted, chanVars, query, calls>>

\* mutant of CallCapturing: the user function is called on a failure too
CallCapturingAll(t) == Capture(t, {TRUE, FALSE})

CallCapturing(t) == Capture(t, {TRUE})

\* mutant of CallAppending: the value goes in front of the captured ones
CallAppendingFront(t) ==
    /\ Running(t) /\ status[t] = "run"
    /\ Top(t).op = "call" /\ Top(t).pc = "start"
    /\ Top(t).f[1].kind = "append"
    /\ LET fr == Top(t)
           k  == fr.f[1]
           r  == fr.v[1]
       IN  /\ fnCalled' = IF r.ok THEN fnCalled \cup {k.s} ELSE fnCalled
           /\ SetInClosure(t, fr, k.s,
                           IF r.ok THEN Ok(<<r.v>> \o k.acc) ELSE Err(r.e))
    /\ UNCHANGED <<cellVars, design, nextCell, ret, planVars, made, ctorArg,
                   fUse, ownVars, status, aborted, chanVars, query, calls>>

\* |result| setter.set_result(f(result)), f the match of map around
\* |b| (a, b), or the match of from_iter: Ok(a) => { successes.push(a);
\* Ok(successes) }, Err(e) => Err(e)
CallAppending(t) ==
    /\ Running(t) /\ status[t] = "run"
    /\ Top(t).op = "call" /\ Top(t).pc = "start"
    /\ Top(t).f[1].kind = "append"
    /\ LET fr == Top(t)
           k  == fr.f[1]
           r  == fr.v[1]
       IN  /\ fnCalled' = IF r.ok THEN fnCalled \cup {k.s} ELSE fnCalled
           /\ SetInClosure(t, fr, k.s,
                           IF r.ok THEN Ok(Append(k.acc, r.v)) ELSE Err(r.e))
    /\ UNCHANGED <<cellVars, design, nextCell, ret, planVars, made, ctorArg,
                   fUse, ownVars, status, aborted, chanVars, query, calls>>

\* a closure that owns Futures is destroyed without having run: the user
\* function goes with the Futures it owns, then the setter
DropCapturing(t) ==
    /\ Running(t)
    /\ Top(t).op = "dropcl" /\ Top(t).pc = "start"
    /\ Top(t).f[1].kind \in {"joinf", "collectf"}
    /\ LET k == Top(t).f[1]
       IN  /\ sUse' = [sUse EXCEPT ![k.s] = "drop"]
           /\ fUse' = [c \in Cells |->
                           IF \E i \in 1..Len(k.cap) : k.cap[i] = c
                             THEN "drop" ELSE fUse[c]]
           /\ stack' = [stack EXCEPT ![t] = Below(t) \o
                 << [Top(t) EXCEPT !.pc = "end"],
                    Frame("dropS", k.s, HandleDropPc, None, None) >>
                 \o DropFrames(k.cap)]
    /\ UNCHANGED <<cellVars, design, nextCell, ret, planVars, made, ctorArg,
                   fnCalled, setArg, setLate, ownVars, status, aborted, query,
                   calls, chanVars>>

\* ------------------------------------------------------ steps inside a call
\* unwrap_unsafe(v): Arc::try_unwrap succeeds for the only strong reference,
\* and the Option inside must be Some; None stands for the panic.
unwrap_unsafe(refs, side, slot) ==
    IF refs = {side} /\ IsSome(slot) THEN slot ELSE None

\* let _lock = self.lock.lock().unwrap()
Lock(t) ==
    /\ Running(t) /\ status[t] = "run"
    /\ Top(t).pc = "lock"
    /\ LET fr == Top(t)
           c  == fr.c
       IN  /\ lock[c] = NoThread
           /\ IF poisoned[c]
                THEN /\ status' = [status EXCEPT ![t] = "unwind"]
                     /\ IF fr.op = "is_resolved"
                          THEN Pop(t)
                          ELSE SetTop(t, [fr EXCEPT !.pc = AfterUnlock(fr)])
                     /\ UNCHANGED lock
                ELSE /\ lock' = [lock EXCEPT ![c] = t]
                     /\ SetTop(t, [fr EXCEPT !.pc = "body"])
                     /\ UNCHANGED status
    /\ UNCHANGED <<poisoned, alive, result, callback, rRefs, cRefs, fixedVars,
                   ownVars, aborted, chanVars, query, calls>>

CallFrame(k, r) == Frame("call", 0, "start", r, k)

\* mutant of ResolveBodyLib: the callback is stored without a look at the
\* result slot
ResolveBodyLibStoring(t) ==
    /\ callback' = [callback EXCEPT ![Top(t).c] = Top(t).f]
    /\ SetTop(t, [Top(t) EXCEPT !.pc = "unlock", !.f = None])
    /\ UNCHANGED <<result, rRefs, status, alive>>

\* Future::resolve under the lock, lib.rs
ResolveBodyLib(t) ==
    LET fr == Top(t)
        c  == fr.c
        un == unwrap_unsafe(rRefs[c], "F", result[c])
    IN  IF IsSome(result[c])
          THEN \* let box result = unwrap_unsafe(self.result); f(result)
               /\ IF IsSome(un)
                    THEN /\ rRefs' = [rRefs EXCEPT ![c] = {}]
                         /\ result' = [result EXCEPT ![c] = None]
                         /\ SetTopPush(t, [fr EXCEPT !.pc = "unlock", !.f = None],
                                       CallFrame(fr.f, un))
                         /\ UNCHANGED status
                    ELSE \* panic!: the Arc is dropped while unwinding
                         /\ status' = [status EXCEPT ![t] = "unwind"]
                         /\ UNCHANGED <<rRefs, result, stack>>
               /\ UNCHANGED <<callback, alive>>
          ELSE \* *self.callback.borrow_mut() = Some(box f)
               /\ callback' = [callback EXCEPT ![c] = fr.f]
               /\ SetTop(t, [fr EXCEPT !.pc = "unlock", !.f = None])
               /\ UNCHANGED <<result, rRefs, status, alive>>

\* mutant of ResolveBodyFlag: a callback that arrives before the result is
\* not stored
ResolveBodyFlagLosing(t) ==
    LET fr == Top(t)
        c  == fr.c
    IN  /\ result' = [result EXCEPT ![c] = None]
        /\ IF IsSome(result[c])
             THEN /\ SetTopPush(t, [fr EXCEPT !.pc = "unlock", !.f = None],
                                CallFrame(fr.f, result[c]))
                  /\ UNCHANGED callback
             ELSE /\ SetTop(t, [fr EXCEPT !.pc = "unlock"])
                  /\ UNCHANGED callback
        /\ UNCHANGED <<rRefs, status, alive>>

\* mutant of ResolveBodyFlag: the flag is looked at first, and a result left
\* by a setter that is gone is not delivered
ResolveBodyFlagGated(t) ==
    LET fr == Top(t)
        c  == fr.c
    IN  /\ IF ~alive[c]
             THEN /\ SetTop(t, [fr EXCEPT !.pc = "unlock"])
                  /\ UNCHANGED <<callback, result>>
             ELSE IF IsSome(result[c])
                    THEN /\ result' = [result EXCEPT ![c] = None]
                         /\ SetTopPush(t, [fr EXCEPT !.pc = "unlock", !.f = None],
                                       CallFrame(fr.f, result[c]))
                         /\ UNCHANGED callback
                    ELSE /\ callback' = [callback EXCEPT ![c] = fr.f]
                         /\ SetTop(t, [fr EXCEPT !.pc = "unlock", !.f = None])
                         /\ UNCHANGED result
        /\ UNCHANGED <<rRefs, status, alive>>

\* Future::resolve under the lock, future.rs; Holder::get takes the value out
ResolveBodyFlag(t) ==
    LET fr == Top(t)
        c  == fr.c
    IN  /\ result' = [result EXCEPT ![c] = None]
        /\ IF IsSome(result[c])
             THEN /\ SetTopPush(t, [fr EXCEPT !.pc = "unlock", !.f = None],
                                CallFrame(fr.f, result[c]))
                  /\ UNCHANGED callback
             ELSE IF alive[c]
                    THEN /\ callback' = [callback EXCEPT ![c] = fr.f]
                         /\ SetTop(t, [fr EXCEPT !.pc = "unlock", !.f = None])
                    ELSE \* the setter is gone: f is dropped with the call
                         /\ SetTop(t, [fr EXCEPT !.pc = "unlock"])
                         /\ UNCHANGED callback
        /\ UNCHANGED <<rRefs, status, alive>>

ResolveBody(t) ==
    /\ Running(t) /\ status[t] = "run"
    /\ Top(t).op = "resolve" /\ Top(t).pc = "body"
    /\ IF design = "lib" THEN ResolveBodyLib(t) ELSE ResolveBodyFlag(t)
    /\ UNCHANGED <<lock, poisoned, cRefs, fixedVars, ownVars, aborted,
                   chanVars, query, calls>>

\* mutant of SetResultBodyLib: the callback is unwrapped without the
\* callback_set test
SetResultBodyLibUnchecked(t) ==
    LET fr == Top(t)
        c  == fr.c
        un == unwrap_unsafe(cRefs[c], "S", callback[c])
    IN  /\ IF IsSome(un)
             THEN /\ cRefs' = [cRefs EXCEPT ![c] = {}]
                  /\ callback' = [callback EXCEPT ![c] = None]
                  /\ SetTopPush(t, [fr EXCEPT !.pc = "unlock", !.v = None],
                                CallFrame(un, fr.v))
                  /\ UNCHANGED status
             ELSE /\ status' = [status EXCEPT ![t] = "unwind"]
                  /\ UNCHANGED <<cRefs, callback, stack>>
        /\ UNCHANGED <<result, alive>>

\* FutureSetter::set_result under the lock, lib.rs
SetResultBodyLib(t) ==
    LET fr == Top(t)
        c  == fr.c
        un == unwrap_unsafe(cRefs[c], "S", callback[c])
    IN  IF IsSome(callback[c])
          THEN \* let callback = unwrap_unsafe(self.callback); callback(result)
               /\ IF IsSome(un)
                    THEN /\ cRefs' = [cRefs EXCEPT ![c] = {}]
                         /\ callback' = [callback EXCEPT ![c] = None]
                         /\ SetTopPush(t, [fr EXCEPT !.pc = "unlock", !.v = None],
                                       CallFrame(un, fr.v))
                         /\ UNCHANGED status
                    ELSE \* panic!: the Arc is dropped while unwinding
                         /\ status' = [status EXCEPT ![t] = "unwind"]
                         /\ UNCHANGED <<cRefs, callback, stack>>
               /\ UNCHANGED <<result, alive>>
          ELSE \* *self.result.borrow_mut() = Some(box result)
               /\ result' = [result EXCEPT ![c] = fr.v]
               /\ SetTop(t, [fr EXCEPT !.pc = "unlock", !.v = None])
               /\ UNCHANGED <<callback, cRefs, status, alive>>

\* mutant of SetResultBodyFlag: a result for a cell whose Future is gone
\* is an error, the call panics
SetResultBodyFlagStrict(t) ==
    LET fr == Top(t)
        c  == fr.c
    IN  /\ callback' = [callback EXCEPT ![c] = None]
        /\ IF IsSome(callback[c])
             THEN /\ SetTopPush(t, [fr EXCEPT !.pc = "unlock", !.v = None],
                                CallFrame(callback[c], fr.v))
                  /\ UNCHANGED <<result, status>>
             ELSE IF alive[c]
                    THEN /\ result' = [result EXCEPT ![c] = fr.v]
                         /\ SetTop(t, [fr EXCEPT !.pc = "unlock", !.v = None])
                         /\ UNCHANGED status
                    ELSE /\ status' = [status EXCEPT ![t] = "unwind"]
                         /\ UNCHANGED <<result, stack>>
        /\ UNCHANGED <<cRefs, alive>>

\* FutureSetter::set_result under the lock, future.rs
SetResultBodyFlag(t) ==
    LET fr == Top(t)
        c  == fr.c
    IN  /\ callback' = [callback EXCEPT ![c] = None]
        /\ IF IsSome(callback[c])
             THEN /\ SetTopPush(t, [fr EXCEPT !.pc = "unlock", !.v = None],
                                CallFrame(callback[c], fr.v))
                  /\ UNCHANGED result
             ELSE IF alive[c]
                    THEN /\ result' = [result EXCEPT ![c] = fr.v]
                         /\ SetTop(t, [fr EXCEPT !.pc = "unlock", !.v = None])
                    ELSE \* the Future is gone: the result is dropped
                         /\ SetTop(t, [fr EXCEPT !.pc = "unlock", !.v = None])
                         /\ UNCHANGED result
        /\ UNCHANGED <<cRefs, status, alive>>

SetResultBody(t) ==
    /\ Running(t) /\ status[t] = "run"
    /\ Top(t).op = "set_result" /\ Top(t).pc = "body"
    /\ IF design = "lib" THEN SetResultBodyLib(t) ELSE SetResultBodyFlag(t)
    /\ UNCHANGED <<lock, poisoned, rRefs, fixedVars, ownVars, aborted,
                   chanVars, query, calls>>

\* mutant of IsResolvedBody: it looks at the callback slot, as callback_set does
IsResolvedBodyCallback(t) ==
    /\ Running(t) /\ status[t] = "run"
    /\ Top(t).op = "is_resolved" /\ Top(t).pc = "body"
    /\ query' = [query EXCEPT ![t] = Some(IsSome(callback[Top(t).c]))]
    /\ SetTop(t, [Top(t) EXCEPT !.pc = "unlock"])
    /\ UNCHANGED <<cellVars, fixedVars, ownVars, status, aborted, chanVars,
                   calls>>

\* mutant of IsResolvedBody: it takes the result out of the slot, as
\* Holder::get does
IsResolvedBodyTaking(t) ==
    /\ Running(t) /\ status[t] = "run"
    /\ Top(t).op = "is_resolved" /\ Top(t).pc = "body"
    /\ query' = [query EXCEPT ![t] = Some(IsSome(result[Top(t).c]))]
    /\ result' = [result EXCEPT ![Top(t).c] = None]
    /\ SetTop(t, [Top(t) EXCEPT !.pc = "unlock"])
    /\ UNCHANGED <<lock, poisoned, alive, callback, rRefs, cRefs, fixedVars,
                   ownVars, status, aborted, chanVars, calls>>

\* self.result.borrow().is_some(), under the lock
IsResolvedBody(t) ==
    /\ Running(t) /\ status[t] = "run"
    /\ Top(t).op = "is_resolved" /\ Top(t).pc = "body"
    /\ query' = [query EXCEPT ![t] = Some(IsSome(result[Top(t).c]))]
    /\ SetTop(t, [Top(t) EXCEPT !.pc = "unlock"])
    /\ UNCHANGED <<cellVars, fixedVars, ownVars, status, aborted, chanVars,
                   calls>>

\* mutant of Unlock: the guard is forgotten, the Mutex stays locked
UnlockKeeping(t) ==
    /\ Running(t)
    /\ Top(t).pc = "unlock"
    /\ IF Top(t).op = "is_resolved"
         THEN Pop(t)
         ELSE SetTop(t, [Top(t) EXCEPT !.pc = AfterUnlock(Top(t))])
    /\ UNCHANGED <<cellVars, fixedVars, ownVars, status, aborted, chanVars,
                   query, calls>>

\* the guard goes out of scope; a guard dropped by a panicking thread
\* poisons the Mutex
Unlock(t) ==
    /\ Running(t)
    /\ Top(t).pc = "unlock"
    /\ LET fr == Top(t)
           c  == fr.c
       IN  /\ lock' = [lock EXCEPT ![c] = NoThread]
           /\ poisoned' = [poisoned EXCEPT ![c] = @ \/ status[t] = "unwind"]
           /\ IF fr.op = "is_resolved"
                THEN Pop(t)
                ELSE SetTop(t, [fr EXCEPT !.pc = AfterUnlock(fr)])
    /\ UNCHANGED <<alive, result, callback, rRefs, cRefs, fixedVars, ownVars,
                   status, aborted, chanVars, query, calls>>

\* mutant of DropOwned: the closure the call still owns is forgotten, and
\* what it captured with it
DropOwnedLeaking(t) ==
    /\ Running(t)
    /\ Top(t).pc = "dropf"
    /\ SetTop(t, [Top(t) EXCEPT !.pc = HandleDropPc, !.f = None])
    /\ UNCHANGED <<cellVars, fixedVars, ownVars, status, aborted, chanVars,
                   query, calls>>

\* a closure the call still owns is dropped when the call ends
DropOwned(t) ==
    /\ Running(t)
    /\ Top(t).pc = "dropf"
    /\ SetTopPush(t, [Top(t) EXCEPT !.pc = HandleDropPc, !.f = None],
                  Frame("dropcl", 0, "start", None, Top(t).f))
    /\ UNCHANGED <<cellVars, fixedVars, ownVars, status, aborted, chanVars,
                   query, calls>>

\* Drop for Future / FutureSetter (future.rs): self.lock.lock().unwrap()
DLock(t) ==
    /\ Running(t)
    /\ Top(t).pc = "dlock"
    /\ LET fr == Top(t)
           c  == fr.c
       IN  /\ lock[c] = NoThread
           /\ IF poisoned[c]
                THEN /\ IF status[t] = "unwind"
                          THEN aborted' = TRUE /\ UNCHANGED status
                          ELSE /\ status' = [status EXCEPT ![t] = "unwind"]
                               /\ UNCHANGED aborted
                     /\ SetTop(t, [fr EXCEPT !.pc = "drop"])
                     /\ UNCHANGED lock
                ELSE /\ lock' = [lock EXCEPT ![c] = t]
                     /\ SetTop(t, [fr EXCEPT !.pc = "dunlock"])
                     /\ UNCHANGED <<status, aborted>>
    /\ UNCHANGED <<poisoned, alive, result, callback, rRefs, cRefs, fixedVars,
                   ownVars, chanVars, query, calls>>

\* mutant of DUnlock: the Drop flips the flag
DUnlockFlipping(t) ==
    /\ Running(t)
    /\ Top(t).pc = "dunlock"
    /\ LET c == Top(t).c
       IN  /\ alive' = [alive EXCEPT ![c] = ~alive[c]]
           /\ lock'  = [lock EXCEPT ![c] = NoThread]
           /\ poisoned' = [poisoned EXCEPT ![c] = @ \/ status[t] = "unwind"]
    /\ SetTop(t, [Top(t) EXCEPT !.pc = "drop"])
    /\ UNCHANGED <<result, callback, rRefs, cRefs, fixedVars, ownVars, status,
                   aborted, chanVars, query, calls>>

\* alive.set(false), then the guard goes out of scope
DUnlock(t) ==
    /\ Running(t)
    /\ Top(t).pc = "dunlock"
    /\ LET c == Top(t).c
       IN  /\ alive' = [alive EXCEPT ![c] = FALSE]
           /\ lock'  = [lock EXCEPT ![c] = NoThread]
           /\ poisoned' = [poisoned EXCEPT ![c] = @ \/ status[t] = "unwind"]
    /\ SetTop(t, [Top(t) EXCEPT !.pc = "drop"])
    /\ UNCHANGED <<result, callback, rRefs, cRefs, fixedVars, ownVars, status,
                   aborted, chanVars, query, calls>>

\* mutant of DropRefs: the last holder runs the stored callback instead of
\* destroying it
DropRefsFiring(t) ==
    /\ Running(t)
    /\ Top(t).pc = "drop"
    /\ LET fr == Top(t)
           c  == fr.c
           rr == rRefs[c] \ {Side(fr)}
           cr == cRefs[c] \ {Side(fr)}
       IN  /\ rRefs' = [rRefs EXCEPT ![c] = rr]
           /\ cRefs' = [cRefs EXCEPT ![c] = cr]
           /\ result' = [result EXCEPT ![c] = IF rr = {} THEN None ELSE @]
           /\ IF cr = {} /\ IsSome(callback[c])
                THEN /\ callback' = [callback EXCEPT ![c] = None]
                     /\ SetTopPush(t, [fr EXCEPT !.pc = "end"],
                                   Frame("call", 0, "start", Some(Ok(0)), callback[c]))
                ELSE /\ Pop(t)
                     /\ UNCHANGED callback
    /\ UNCHANGED <<lock, poisoned, alive, fixedVars, ownVars, status, aborted,
                   chanVars, query, calls>>

\* the handle's Arc fields are dropped; the last holder destroys the slots,
\* and with them a callback that is still stored
DropRefs(t) ==
    /\ Running(t)
    /\ Top(t).pc = "drop"
    /\ LET fr == Top(t)
           c  == fr.c
           rr == rRefs[c] \ {Side(fr)}
           cr == cRefs[c] \ {Side(fr)}
       IN  /\ rRefs' = [rRefs EXCEPT ![c] = rr]
           /\ cRefs' = [cRefs EXCEPT ![c] = cr]
           /\ result' = [result EXCEPT ![c] = IF rr = {} THEN None ELSE @]
           /\ IF cr = {} /\ IsSome(callback[c])
                THEN /\ callback' = [callback EXCEPT ![c] = None]
                     /\ SetTopPush(t, [fr EXCEPT !.pc = "end"],
                                   Frame("dropcl", 0, "start", None, callback[c]))
                ELSE /\ Pop(t)
                     /\ UNCHANGED callback
    /\ UNCHANGED <<lock, poisoned, alive, fixedVars, ownVars, status, aborted,
                   chanVars, query, calls>>

\* the call on top is over
Return(t) ==
    /\ Running(t)
    /\ Top(t).pc = "end"
    /\ Pop(t)
    /\ UNCHANGED <<cellVars, fixedVars, ownVars, status, aborted, chanVars,
                   query, calls>>

\* ---------------------------------------------------------------- callbacks
\* the callback runs: a terminal callback is user code, recorded in calls;
\* the closure of await does tx.send(result).unwrap() and drops tx
Call(t) ==
    /\ Running(t) /\ status[t] = "run"
    /\ Top(t).op = "call" /\ Top(t).pc = "start"
    /\ LET k == Top(t).f[1]
           r == Top(t).v[1]
       IN  \/ /\ k.kind = "terminal"
              /\ calls' = Append(calls, [id |-> k.id, r |-> r, t |-> t])
              /\ Pop(t)
              /\ UNCHANGED chanVars
           \/ /\ k.kind = "send"
              /\ chanMsg' = [chanMsg EXCEPT ![k.id] = Some(r)]
              /\ chanTx'  = [chanTx EXCEPT ![k.id] = "dropped"]
              /\ Pop(t)
              /\ UNCHANGED calls
    /\ UNCHANGED <<cellVars, fixedVars, ownVars, status, aborted, query>>

\* mutant of CallFilter: the callback is called on every outcome
CallFilterAll(t) ==
    /\ Running(t) /\ status[t] = "run"
    /\ Top(t).op = "call" /\ Top(t).pc = "start"
    /\ Top(t).f[1].kind = "filter"
    /\ calls' = Append(calls, [id |-> Top(t).f[1].id, r |-> Top(t).v[1], t |-> t])
    /\ Pop(t)
    /\ UNCHANGED <<cellVars, fixedVars, ownVars, status, aborted, query,
                   chanVars>>

\* the closure of resolve_success: match result { Ok(a) => f(a), _ => {} },
\* that of resolve_err: match result { Err(e) => f(e), _ => {} }
CallFilter(t) ==
    /\ Running(t) /\ status[t] = "run"
    /\ Top(t).op = "call" /\ Top(t).pc = "start"
    /\ Top(t).f[1].kind = "filter"
    /\ LET k == Top(t).f[1]
           r == Top(t).v[1]
       IN  calls' = IF r.ok = (k.fn = "resolve_success")
                      THEN Append(calls, [id |-> k.id, r |-> r, t |-> t])
                      ELSE calls
    /\ Pop(t)
    /\ UNCHANGED <<cellVars, fixedVars, ownVars, status, aborted, query,
                   chanVars>>

\* mutant of DropClosure: the setter owned by the closure that forwards the
\* outcome of an inner Future is leaked
DropClosureLeaking(t) ==
    /\ Running(t)
    /\ Top(t).op = "dropcl" /\ Top(t).pc = "start"
    /\ LET k == Top(t).f[1]
       IN  \/ /\ k.kind \in {"terminal", "filter", "forward"}
              /\ Pop(t)
              /\ UNCHANGED <<chanVars, sUse>>
           \/ /\ k.kind = "send"
              /\ chanTx' = [chanTx EXCEPT ![k.id] = "dropped"]
              /\ Pop(t)
              /\ UNCHANGED <<chanMsg, sUse>>
           \/ /\ k.kind \in {"transform", "transformf", "observe", "append"}
              /\ sUse' = [sUse EXCEPT ![k.s] = "drop"]
              /\ SetTopPush(t, [Top(t) EXCEPT !.pc = "end"],
                            Frame("dropS", k.s, HandleDropPc, None, None))
              /\ UNCHANGED chanVars
    /\ UNCHANGED <<cellVars, design, nextCell, ret, planVars, made, ctorArg, fnCalled,
                   setArg, fUse, setLate, ownVars, status, aborted, query,
                   calls>>

\* a closure is destroyed without having run, with what it captured
DropClosure(t) ==
    /\ Running(t)
    /\ Top(t).op = "dropcl" /\ Top(t).pc = "start"
    /\ LET k == Top(t).f[1]
       IN  \/ /\ k.kind \in {"terminal", "filter"}
              /\ Pop(t)
              /\ UNCHANGED <<chanVars, sUse>>
           \/ /\ k.kind = "send"
              /\ chanTx' = [chanTx EXCEPT ![k.id] = "dropped"]
              /\ Pop(t)
              /\ UNCHANGED <<chanMsg, sUse>>
           \/ \* the closure owns the setter of the derived Future
              /\ k.kind \in {"transform", "transformf", "forward", "observe",
                            "append"}
              /\ sUse' = [sUse EXCEPT ![k.s] = "drop"]
              /\ SetTopPush(t, [Top(t) EXCEPT !.pc = "end"],
                            Frame("dropS", k.s, HandleDropPc, None, None))
              /\ UNCHANGED chanVars
    /\ UNCHANGED <<cellVars, design, nextCell, ret, planVars, made, ctorArg, fnCalled,
                   setArg, fUse, setLate, ownVars, status, aborted, query,
                   calls>>

\* ------------------------------------------------------------ blocking wait
\* what a blocking wait on cell c returned: Err(DroppedSetterError) or Ok(r)
DroppedSetterError(c, op) ==
    [outer |-> "DroppedSetterError", r |-> Ok(0), c |-> c, op |-> op]
Got(c, op, r) == [outer |-> "Ok", r |-> r, c |-> c, op |-> op]

\* mutant of Recv: await hands the RecvError back as await_safe does
RecvUnwrapLost(t) ==
    /\ Running(t) /\ status[t] = "run"
    /\ Top(t).op \in {"await", "await_safe"} /\ Top(t).pc = "recv"
    /\ \/ /\ IsSome(chanMsg[t])
          /\ ret' = [ret EXCEPT ![t] =
                        Some(Got(Top(t).c, Top(t).op, chanMsg[t][1]))]
       \/ /\ ~IsSome(chanMsg[t]) /\ chanTx[t] = "dropped"
          /\ ret' = [ret EXCEPT ![t] =
                        Some(DroppedSetterError(Top(t).c, Top(t).op))]
    /\ chanTx'  = [chanTx EXCEPT ![t] = "none"]
    /\ chanMsg' = [chanMsg EXCEPT ![t] = None]
    /\ Pop(t)
    /\ UNCHANGED <<cellVars, design, planVars, nextCell, histVars, ownVars, aborted,
                   query, calls, status>>

\* rx.recv(): a buffered message is returned even when the Sender is gone;
\* with no message and no Sender it is a RecvError.  await unwraps it.
Recv(t) ==
    /\ Running(t) /\ status[t] = "run"
    /\ Top(t).op \in {"await", "await_safe"} /\ Top(t).pc = "recv"
    /\ \/ /\ IsSome(chanMsg[t])
          /\ ret' = [ret EXCEPT ![t] =
                        Some(Got(Top(t).c, Top(t).op, chanMsg[t][1]))]
          /\ UNCHANGED status
       \/ /\ ~IsSome(chanMsg[t]) /\ chanTx[t] = "dropped"
          /\ IF Top(t).op = "await_safe"
               THEN /\ ret' = [ret EXCEPT ![t] =
                                  Some(DroppedSetterError(Top(t).c, Top(t).op))]
                    /\ UNCHANGED status
               ELSE /\ status' = [status EXCEPT ![t] = "unwind"]
                    /\ UNCHANGED ret
    /\ chanTx'  = [chanTx EXCEPT ![t] = "none"]
    /\ chanMsg' = [chanMsg EXCEPT ![t] = None]
    /\ Pop(t)
    /\ UNCHANGED <<cellVars, design, planVars, nextCell, histVars, ownVars, aborted,
                   query, calls>>

\* ------------------------------------------------------------------- panics
\* unwinding leaves the frame on top: a held guard is released, what the
\* call owns is dropped
Unwind(t) ==
    /\ Running(t) /\ status[t] = "unwind"
    /\ Top(t).op /= "dropcl" /\ Top(t).pc \notin CleanupPcs
    /\ LET fr == Top(t)
       IN  CASE fr.op \in {"resolve", "set_result"} ->
                  /\ SetTop(t, [fr EXCEPT !.pc = "unlock"])
                  /\ UNCHANGED fUse
             [] fr.op = "call" /\ fr.pc = "start" ->
                  /\ SetTop(t, Frame("dropcl", 0, "start", None, fr.f))
                  /\ UNCHANGED fUse
             [] fr.op = "call" /\ fr.pc /= "start" ->
                  \* the Future the user function returned, then the closure
                  /\ SetTopPush(t, Frame("dropcl", 0, "start", None, fr.f),
                                Frame("dropF", fr.c, HandleDropPc, None, None))
                  /\ fUse' = [fUse EXCEPT ![fr.c] = "drop"]
             [] fr.op \in {"done", "derive"} ->
                  /\ SetTop(t, Frame("dropF", fr.c, HandleDropPc, None, None))
                  /\ fUse' = [fUse EXCEPT ![fr.c] = "drop"]
             [] OTHER ->
                  /\ Pop(t)
                  /\ UNCHANGED fUse
    /\ UNCHANGED <<cellVars, design, planVars, nextCell, ret, made, ctorArg, fnCalled, setArg,
                   sUse, setLate, ownVars, status, aborted, chanVars, query,
                   calls>>

\* the panicking thread has left its last frame: the handles it still holds
\* are dropped, then the thread is gone
Die(t) ==
    /\ status[t] = "unwind" /\ stack[t] = <<>> /\ ~aborted
    /\ IF \E c \in Cells : fOwner[c] = t \/ sOwner[c] = t
         THEN /\ \E c \in Cells :
                    \/ /\ fOwner[c] = t
                       /\ fOwner' = [fOwner EXCEPT ![c] = NoThread]
                       /\ fUse'   = [fUse EXCEPT ![c] = "drop"]
                       /\ Push(t, Frame("dropF", c, HandleDropPc, None, None))
                       /\ UNCHANGED <<sOwner, sUse>>
                    \/ /\ sOwner[c] = t
                       /\ sOwner' = [sOwner EXCEPT ![c] = NoThread]
                       /\ sUse'   = [sUse EXCEPT ![c] = "drop"]
                       /\ Push(t, Frame("dropS", c, HandleDropPc, None, None))
                       /\ UNCHANGED <<fOwner, fUse>>
              /\ UNCHANGED status
         ELSE /\ status' = [status EXCEPT ![t] = "dead"]
              /\ UNCHANGED <<stack, ownVars, fUse, sUse>>
    /\ UNCHANGED <<cellVars, design, planVars, nextCell, ret, made, ctorArg, fnCalled, setArg,
                   setLate, aborted, chanVars, query, calls>>

\* -------------------------------------------------------------------- Next
Next ==
    \/ \E t \in Threads : New(t)
    \/ \E t \in Threads, r \in RootOutcomes : done(t, r)
    \/ \E t \in Threads, a \in RootInts : value(t, a)
    \/ \E t \in Threads, e \in RootStrs : err(t, e)
    \/ \E t \in Threads : DoneRet(t)
    \/ \E t \in Threads, r \in RootOutcomes : run(t, r)
    \/ \E c \in Cells : Spawn(c)
    \/ \E t \in Threads, c \in Cells : StartResolve(t, c)
    \/ \E t \in Threads, c \in Cells, op \in {"resolve_success", "resolve_err"} :
          StartResolveFiltered(t, c, op)
    \/ \E t \in Threads, c \in Cells, r \in RootOutcomes : StartSetResult(t, c, r)
    \/ \E t \in Threads, c \in Cells : StartDropF(t, c)
    \/ \E t \in Threads, c \in Cells : StartDropS(t, c)
    \/ \E t \in Threads, c \in Cells : StartIsResolved(t, c)
    \/ \E t \in Threads, c \in Cells, op \in {"await", "await_safe"} :
          StartAwait(t, c, op)
    \/ \E t \in Threads : Lock(t)
    \/ \E t \in Threads : ResolveBody(t)
    \/ \E t \in Threads : SetResultBody(t)
    \/ \E t \in Threads : IsResolvedBody(t)
    \/ \E t \in Threads : Unlock(t)
    \/ \E t \in Threads : DropOwned(t)
    \/ \E t \in Threads : DLock(t)
    \/ \E t \in Threads : DUnlock(t)
    \/ \E t \in Threads : DropRefs(t)
    \/ \E t \in Threads : Return(t)
    \/ \E t \in Threads : Call(t)
    \/ \E t \in Threads : CallFilter(t)
    \/ \E t \in Threads : DropClosure(t)
    \/ \E t \in Threads : Recv(t)
    \/ \E t \in Threads : Unwind(t)
    \/ \E t \in Threads : Die(t)

Spec == Init /\ [][Next]_vars

\* the program builds its chain, then consumes the Future at its end
NextChain ==
    \/ \E t \in Threads : New(t)
    \/ \E t \in Threads, a \in RootInts : value(t, a)
    \/ \E t \in Threads : DoneRet(t)
    \/ \E c \in Cells : Spawn(c)
    \/ \E t \in Threads, c \in Cells : Derive(t, c)
    \/ \E t \in Threads, c \in Cells : StartResolve(t, c)
    \/ \E t \in Threads, c \in Cells, r \in RootOutcomes : StartSetResult(t, c, r)
    \/ \E t \in Threads, c \in Cells : StartDropF(t, c)
    \/ \E t \in Threads, c \in Cells : StartDropS(t, c)
    \/ \E t \in Threads, c \in Cells, op \in {"await", "await_safe"} :
          StartAwait(t, c, op)
    \/ \E t \in Threads : Lock(t)
    \/ \E t \in Threads : ResolveBody(t)
    \/ \E t \in Threads : SetResultBody(t)
    \/ \E t \in Threads : Unlock(t)
    \/ \E t \in Threads : DropOwned(t)
    \/ \E t \in Threads : DLock(t)
    \/ \E t \in Threads : DUnlock(t)
    \/ \E t \in Threads : DropRefs(t)
    \/ \E t \in Threads : Return(t)
    \/ \E t \in Threads : Call(t)
    \/ \E t \in Threads : CallTransform(t)
    \/ \E t \in Threads : CallObserve(t)
    \/ \E t \in Threads : CallForward(t)
    \/ \E t \in Threads : CallTransformF(t)
    \/ \E t \in Threads : CallInnerMade(t)
    \/ \E t \in Threads : CallInnerMapped(t)
    \/ \E t \in Threads : DropClosure(t)
    \/ \E t \in Threads : Recv(t)
    \/ \E t \in Threads : Unwind(t)
    \/ \E t \in Threads : Die(t)

SpecChain == InitChain /\ [][NextChain]_vars

\* the next step of a call in progress on thread t
Step(t) ==
    \/ Lock(t) \/ ResolveBody(t) \/ SetResultBody(t) \/ Unlock(t)
    \/ DropOwned(t) \/ DLock(t) \/ DUnlock(t) \/ DropRefs(t) \/ Return(t)
    \/ Call(t) \/ CallTransform(t) \/ CallObserve(t) \/ CallForward(t)
    \/ CallTransformF(t) \/ CallInnerMade(t) \/ CallInnerMapped(t)
    \/ DropClosure(t) \/ Recv(t) \/ Unwind(t) \/ Die(t) \/ DoneRet(t)

\* a program that builds a pipeline: one derived operation, whose producer
\* can run on the other thread, or the three observers
InitPipe ==
    Start /\ plan \in {<<FreeOps[i]>> : i \in 1..Len(FreeOps)} \cup {ObserverChain}

\* the pipelines, every thread being scheduled as long as it can run
SpecChainFair ==
    InitPipe /\ [][NextChain]_vars /\ \A t \in Threads : WF_vars(Step(t))

\* the program makes its Futures with new(), joins or collects them, and
\* consumes the result; the setters are used at any moment before, in
\* between or after, on one thread (value(a) is new() and set_result(Ok(a)))
NextJoin ==
    \/ \E t \in Threads : New(t)
    \/ \E t \in Threads : DoneRet(t)
    \/ \E t \in Threads : Join(t)
    \/ \E t \in Threads : VecNew(t)
    \/ \E t \in Threads, c \in Cells : FoldStep(t, c)
    \/ \E t \in Threads, c \in Cells : CollectMap(t, c)
    \/ \E t \in Threads, c \in Cells : StartResolve(t, c)
    \/ \E t \in Threads, c \in Cells : StartAwait(t, c, "await_safe")
    \/ \E t \in Threads, c \in Cells, r \in RootOutcomes : StartSetResult(t, c, r)
    \/ \E t \in Threads, c \in Cells : StartDropS(t, c)
    \/ \E t \in Threads : Lock(t)
    \/ \E t \in Threads : ResolveBody(t)
    \/ \E t \in Threads : SetResultBody(t)
    \/ \E t \in Threads : Unlock(t)
    \/ \E t \in Threads : DropOwned(t)
    \/ \E t \in Threads : DLock(t)
    \/ \E t \in Threads : DUnlock(t)
    \/ \E t \in Threads : DropRefs(t)
    \/ \E t \in Threads : Return(t)
    \/ \E t \in Threads : Call(t)
    \/ \E t \in Threads : CallTransform(t)
    \/ \E t \in Threads : CallForward(t)
    \/ \E t \in Threads : CallCapturing(t)
    \/ \E t \in Threads : CallAppending(t)
    \/ \E t \in Threads : CallInnerMade(t)
    \/ \E t \in Threads : CallInnerMapped(t)
    \/ \E t \in Threads : DropClosure(t)
    \/ \E t \in Threads : DropCapturing(t)
    \/ \E t \in Threads : Recv(t)

\* the programs: join2, join3, the collection of two Futures, or the
\* collection of an empty iterator
JoinPlans ==
    {<<"join2">>, <<"join3">>,
     <<"from_iter", "fold", "fold", "collect">>, <<"from_iter", "collect">>}

InitJoin == Start /\ plan \in JoinPlans

SpecJoin == InitJoin /\ [][NextJoin]_vars

\* -------------------------------------------------------------- type check
TypeOK ==
    /\ design \in {"lib", "flag"}
    /\ nextCell \in 1..(NCells + 1)
    /\ \A c \in Cells :
          /\ lock[c] \in Threads \cup {NoThread}
          /\ rRefs[c] \subseteq {"F", "S"} /\ cRefs[c] \subseteq {"F", "S"}
          /\ Len(result[c]) <= 1 /\ Len(callback[c]) <= 1
    /\ \A t \in Threads : status[t] \in {"run", "unwind", "dead"}

\* ------------------------------------------------ vocabulary of the claims
\* every call has returned or was unwound
Quiet == \A t \in Threads : stack[t] = <<>>

\* the invocations of the terminal callback handed to resolve on cell c
CallsOf(c) == SelectSeq(calls, LAMBDA x : x.id = c)

\* some thread is running the callback that was handed to cell c
CallbackRunning(c) ==
    \E t \in Threads : \E i \in 1..Len(stack[t]) :
        stack[t][i].op = "call" /\ stack[t][i].f[1].on = c

\* the setter of c was dropped, never having published, and the drop is over
SetterAbandoned(c) == sUse[c] = "drop" /\ ~InFlight(c, {"dropS"})

\* the Future of c was dropped, never having installed, and the drop is over
FutureAbandoned(c) == fUse[c] = "drop" /\ ~InFlight(c, {"dropF"})

\* ------------------------------------------------------------------ C1
\* C1: when set_result(R) and resolve(cb) were both called on a pair, in any
\* order and on any threads, then once both calls are over cb has been
\* invoked exactly once, with R.
C1_ExactlyOnce ==
    \A c \in Cells :
        (sUse[c] = "set_result" /\ fUse[c] = "resolve" /\ Quiet)
            => /\ Len(CallsOf(c)) = 1
               /\ CallsOf(c)[1].r = setArg[c][1]

\* ------------------------------------------------------------------ C2
\* C2: while set_result was never called on a pair, the callback handed to
\* its Future has not been invoked and is not running, whatever was dropped.
C2_NoFireWithoutPublish ==
    \A c \in Cells :
        sUse[c] /= "set_result" => CallsOf(c) = <<>> /\ ~CallbackRunning(c)

\* the setter was dropped and the callback handed to resolve is destroyed unrun
C2_Witness ==
    \E c \in Cells : \E t \in Threads :
        /\ sUse[c] = "drop" /\ fUse[c] = "resolve"
        /\ stack[t] /= <<>> /\ Top(t).op = "dropcl"
        /\ Top(t).f[1] = Terminal(c)

\* ------------------------------------------------------------------ C3
\* the thread blocked in the recv of op on cell c, its resolve being over
Waiting(t, c, op) ==
    /\ status[t] = "run"
    /\ stack[t] = <<Frame(op, c, "recv", None, None)>>

\* C3: await_safe on a pair returns Ok(R) when the setter published R and
\* Err(DroppedSetterError) when the setter was dropped without publishing,
\* and it is not left blocked once the setter's drop is over.
C3_AwaitSafe ==
    \A t \in Threads :
        /\ (IsSome(ret[t]) /\ ret[t][1].op = "await_safe") =>
              LET c == ret[t][1].c
              IN  /\ sUse[c] = "set_result" => ret[t][1] = Got(c, "await_safe", setArg[c][1])
                  /\ sUse[c] = "drop" => ret[t][1] = DroppedSetterError(c, "await_safe")
        /\ \A c \in Cells :
              (Waiting(t, c, "await_safe") /\ SetterAbandoned(c)) =>
                  chanTx[t] = "dropped" /\ ~IsSome(chanMsg[t])

\* ------------------------------------------------------------------ C4
\* C4: when the setter publishes R, await on the pair does not panic, and
\* what it returns is R.
C4_AwaitReturnsPublished ==
    \A c \in Cells :
        (fUse[c] = "await" /\ sUse[c] = "set_result") =>
            /\ \A t \in Threads : status[t] = "run"
            /\ \A t \in Threads :
                  (IsSome(ret[t]) /\ ret[t][1].c = c) =>
                      ret[t][1] = Got(c, "await", setArg[c][1])

\* ------------------------------------------------------------------ C5
\* C5: when the setter was dropped without publishing, await returns no
\* value, and a caller blocked in recv finds the channel disconnected and
\* empty, so that the unwrap panics.
C5_AwaitPanics ==
    \A t \in Threads :
        /\ (IsSome(ret[t]) /\ ret[t][1].op = "await") =>
              sUse[ret[t][1].c] = "set_result"
        /\ \A c \in Cells :
              (Waiting(t, c, "await") /\ SetterAbandoned(c)) =>
                  chanTx[t] = "dropped" /\ ~IsSome(chanMsg[t])

\* await has panicked on a pair whose setter was dropped
C5_Witness ==
    \E c \in Cells : \E t \in Threads :
        /\ fUse[c] = "await" /\ SetterAbandoned(c)
        /\ status[t] = "dead" /\ ~IsSome(ret[t])

\* ------------------------------------------------------------------ C6
\* the thread is not waiting for a mutex that is held
NotBlocked(t) ==
    (stack[t] /= <<>> /\ Top(t).pc \in {"lock", "dlock"})
        => lock[Top(t).c] = NoThread

\* C6: a set_result that begins after the Future was dropped without a
\* callback does not panic, does not block, invokes no callback and puts no
\* message into a channel.
C6_LatePublishNoOp ==
    \A c \in Cells :
        setLate[c] /= NoThread =>
            /\ status[setLate[c]] = "run"
            /\ NotBlocked(setLate[c])
            /\ CallsOf(c) = <<>> /\ ~CallbackRunning(c)
            /\ \A t \in Threads : ~IsSome(chanMsg[t])

\* such a set_result has returned
C6_Witness ==
    \E c \in Cells :
        /\ setLate[c] /= NoThread /\ made[c] = "new"
        /\ stack[setLate[c]] = <<>> /\ status[setLate[c]] = "run"

\* ------------------------------------------------------------------ C7
\* a result was stored in cell c: set_result is past its body
Published(c) ==
    /\ sUse[c] = "set_result"
    /\ \A t \in Threads : \A i \in 1..Len(stack[t]) :
          (stack[t][i].op = "set_result" /\ stack[t][i].c = c)
              => stack[t][i].pc \notin {"lock", "body"}

\* a callback has claimed the result of cell c
Claimed(c) == CallsOf(c) /= <<>> \/ CallbackRunning(c)

\* C7: what is_resolved returns is true exactly when a result was published
\* into the cell and no callback has claimed it.
C7_IsResolved ==
    \A t \in Threads :
        (stack[t] /= <<>> /\ Top(t).op = "is_resolved" /\ Top(t).pc = "unlock")
            => (query[t][1] <=> (Published(Top(t).c) /\ ~Claimed(Top(t).c)))

\* is_resolved answers true on a pair made by new()
C7_Witness ==
    \E t \in Threads :
        /\ stack[t] /= <<>> /\ Top(t).op = "is_resolved" /\ Top(t).pc = "unlock"
        /\ made[Top(t).c] = "new" /\ query[t] = Some(TRUE)

\* ------------------------------------------------------------------ C8
\* C8: no step of is_resolved changes the stored result, the stored
\* callback, the liveness flag, the references or the ownership of the pair.
C8_IsResolvedKeeps ==
    [][ \A t \in Threads :
          (stack[t] /= <<>> /\ Top(t).op = "is_resolved" /\ stack'[t] /= stack[t])
              => /\ result' = result /\ callback' = callback /\ alive' = alive
                 /\ rRefs' = rRefs /\ cRefs' = cRefs
                 /\ fOwner' = fOwner /\ sOwner' = sOwner ]_vars

\* is_resolved said true, and the resolve issued afterwards got the result
C8_Witness ==
    \E c \in Cells :
        /\ query[Main] = Some(TRUE) /\ fUse[c] = "resolve"
        /\ Len(CallsOf(c)) = 1 /\ CallsOf(c)[1].r = setArg[c][1]

\* ------------------------------------------------------------------ C9
\* what the constructor of cell c was asked to resolve to
CtorOutcome(c) ==
    CASE made[c] = "value" -> Ok(ctorArg[c][1].n)
      [] made[c] = "err"   -> Err(ctorArg[c][1].s)
      [] OTHER             -> ctorArg[c][1].r

\* C9: the Future returned by value / err / done holds its result already
\* (is_resolved answers true), and a callback or a wait on it gets
\* Ok(a) / Err(e) / r.
C9_Constructors ==
    \A c \in Cells :
        made[c] \in {"value", "err", "done"} =>
            /\ fOwner[c] /= NoThread => result[c] = Some(CtorOutcome(c))
            /\ \A t \in Threads :
                  (stack[t] /= <<>> /\ Top(t).op = "is_resolved"
                      /\ Top(t).c = c /\ Top(t).pc = "unlock") => query[t] = Some(TRUE)
            /\ \A i \in 1..Len(CallsOf(c)) : CallsOf(c)[i].r = CtorOutcome(c)
            /\ \A t \in Threads :
                  (IsSome(ret[t]) /\ ret[t][1].c = c) =>
                      ret[t][1] = Got(c, ret[t][1].op, CtorOutcome(c))

\* err(e): is_resolved said true and the callback then got Err(e)
C9_Witness ==
    \E c \in Cells :
        /\ made[c] = "err" /\ query[Main] = Some(TRUE)
        /\ Len(CallsOf(c)) = 1 /\ ~CallsOf(c)[1].r.ok

\* ------------------------------------------------------------------ C10
RECURSIVE OpsTo(_)
\* the derived operations between the root of a chain and cell c, in the
\* order they were declared
OpsTo(c) ==
    IF opOf[c] \notin DerivedOps THEN <<>> ELSE Append(OpsTo(up[c]), opOf[c])

RECURSIVE RootOf(_)
\* the cell the chain of c begins with
RootOf(c) == IF opOf[c] \notin DerivedOps THEN c ELSE RootOf(up[c])

RECURSIVE Fold(_, _)
\* the operations ops applied to the outcome o one after another, the first
\* one first; None when there is no outcome or a user function panics
Fold(ops, o) ==
    IF ops = <<>> \/ o = None THEN o
    ELSE Fold(Tail(ops),
              IF Panics(Head(ops), o[1]) THEN None
              ELSE Some(OpResult(Head(ops), o[1])))

\* the outcomes a callback or a wait on the Future of cell c was given
Delivered(c) ==
    {CallsOf(c)[i].r : i \in 1..Len(CallsOf(c))}
      \cup {ret[t][1].r : t \in {u \in Threads :
                                   IsSome(ret[u]) /\ ret[u][1].c = c
                                     /\ ret[u][1].outer = "Ok"}}

\* C10: what a chain of derived operations hands on at each of its Futures,
\* and delivers at its end, is the outcome of its root with the functions
\* of the operations applied in the order of declaration; the chain map,
\* and_then, transform, map_err, rescue, handle, and_thenf, transformf,
\* rescuef makes Ok(9) of Ok(0).
C10_ChainOrder ==
    \A c \in Cells :
        /\ (opOf[c] \in DerivedOps /\ IsSome(setArg[c])) =>
              setArg[c] = Fold(OpsTo(c), setArg[RootOf(c)])
        /\ opOf[c] \in DerivedOps =>
              \A r \in Delivered(c) : Some(r) = Fold(OpsTo(c), setArg[RootOf(c)])
        /\ (OpsTo(c) = S4Chain /\ setArg[RootOf(c)] = Some(Ok(0))) =>
              \A r \in Delivered(c) : r = Ok(9)

\* await on the end of the chain of the test has returned Ok(9)
C10_Witness ==
    \E c \in Cells :
        /\ OpsTo(c) = S4Chain /\ made[RootOf(c)] = "value"
        /\ ret[Main] = Some(Got(c, "await", Ok(9)))

\* a chain whose root is published by another thread has delivered
C10_WitnessRaced ==
    \E c \in Cells :
        /\ opOf[c] \in DerivedOps /\ CallsOf(c) /= <<>>
        /\ sUse[RootOf(c)] = "set_result"
        /\ \E i \in 1..Len(calls) : calls[i].id = c /\ calls[i].t /= Main

\* ------------------------------------------------------------------ C11
\* the Future of cell c was handed to resolve or await, its root was
\* published, every call is over and no thread has panicked
Settled(c) ==
    /\ fUse[c] \in {"resolve", "await"}
    /\ sUse[RootOf(c)] = "set_result"
    /\ Quiet /\ \A t \in Threads : status[t] = "run"

\* C11: what the end of a chain delivers is the chain's functions folded
\* over the outcome of the root, and it is delivered, whether set_result was
\* called on the root before the chain was built on it or afterwards.
C11_TimingIndependent ==
    \A c \in Cells :
        opOf[c] \in DerivedOps =>
            LET want == Fold(OpsTo(c), setArg[RootOf(c)])
            IN  /\ early[RootOf(c)] =>
                      /\ \A r \in Delivered(c) : Some(r) = want
                      /\ (Settled(c) /\ want /= None) => Delivered(c) = {want[1]}
                /\ ~early[RootOf(c)] =>
                      /\ \A r \in Delivered(c) : Some(r) = want
                      /\ (Settled(c) /\ want /= None) => Delivered(c) = {want[1]}

\* the chain of the test was built on an unresolved Future, the setter
\* published Ok(0) afterwards, and await returned Ok(9)
C11_Witness ==
    \E c \in Cells :
        /\ OpsTo(c) = S4Chain /\ made[RootOf(c)] = "new"
        /\ ~early[RootOf(c)] /\ setArg[RootOf(c)] = Some(Ok(0))
        /\ ret[Main] = Some(Got(c, "await", Ok(9)))

\* ------------------------------------------------------------------ C12
\* the operation of cell c has nothing to do for the outcome r: it is for
\* successes and r is a failure, or it is for failures and r is a success
Skips(c, r) ==
    \/ opOf[c] \in SuccessOnly /\ ~r.ok
    \/ opOf[c] \in FailureOnly /\ r.ok

\* C12: map, and_then and and_thenf on a failure, and map_err, handle,
\* rescue and rescuef on a success, do not call the user function and hand
\* on and deliver the upstream outcome as it is.
C12_ShortCircuit ==
    \A c \in Cells :
        (opOf[c] \in DerivedOps /\ IsSome(setArg[up[c]])
            /\ Skips(c, setArg[up[c]][1])) =>
                /\ c \notin fnCalled
                /\ IsSome(setArg[c]) => setArg[c] = setArg[up[c]]
                /\ \A r \in Delivered(c) : r = setArg[up[c]][1]

\* map_err, rescue, rescuef and handle have handed Ok(5) on untouched, and
\* map and and_then have handed on the failure that and_thenf made of it
C12_Witness ==
    \E c, d \in Cells :
        /\ OpsTo(c) = SubSeq(SkipChain, 1, 4)
        /\ setArg[RootOf(c)] = Some(Ok(5)) /\ setArg[c] = Some(Ok(5))
        /\ \A b \in Cells :
              (opOf[b] \in FailureOnly /\ RootOf(b) = RootOf(c)) => b \notin fnCalled
        /\ OpsTo(d) = SkipChain /\ RootOf(d) = RootOf(c)
        /\ setArg[d] = Some(Err(<<6>>)) /\ setArg[up[up[d]]] = Some(Err(<<6>>))
        /\ d \notin fnCalled /\ up[d] \notin fnCalled

\* ------------------------------------------------------------------ C14
\* the observer of the operation op is meant to see the outcome r
Observes(op, r) ==
    \/ op = "on_completion"
    \/ op = "on_success" /\ r.ok
    \/ op = "on_err" /\ ~r.ok

\* C14: the Future returned by on_completion, on_success and on_err gets
\* and delivers the upstream outcome as it is; once the closure has run,
\* the observer has been called exactly when the outcome is one it is for.
C14_Observers ==
    \A c \in Cells :
        opOf[c] \in Observers =>
            /\ IsSome(setArg[c]) =>
                  /\ setArg[c] = setArg[up[c]]
                  /\ c \in fnCalled <=> Observes(opOf[c], setArg[up[c]][1])
            /\ c \in fnCalled => IsSome(setArg[c])
            /\ \A r \in Delivered(c) : Some(r) = setArg[up[c]]

\* a failure went through the three observers: on_completion and on_err
\* have run, on_success has not, and the failure was delivered
C14_Witness ==
    \E c \in Cells :
        /\ OpsTo(c) = ObserverChain /\ CallsOf(c) /= <<>>
        /\ ~CallsOf(c)[1].r.ok /\ CallsOf(c)[1].r = setArg[RootOf(c)][1]
        /\ up[c] \notin fnCalled /\ c \in fnCalled /\ up[up[c]] \in fnCalled

\* C15: resolve_success(cb) calls cb only with a success, the published one,
\* and at most once; resolve_err(cb) only with a failure; the other kind of
\* outcome is dropped without a call, and when nothing panicked and every
\* call has returned, the matching kind has been handed to cb
C15_Filtered ==
    \A c \in Cells :
        fUse[c] \in {"resolve_success", "resolve_err"} =>
            /\ Len(CallsOf(c)) <= 1
            /\ \A i \in 1..Len(CallsOf(c)) :
                  /\ CallsOf(c)[i].r.ok = (fUse[c] = "resolve_success")
                  /\ Some(CallsOf(c)[i].r) = setArg[c]
            /\ (Quiet /\ IsSome(setArg[c]) /\ \A t \in Threads : status[t] = "run")
                  => ((CallsOf(c) /= <<>>)
                        <=> (setArg[c][1].ok = (fUse[c] = "resolve_success")))

\* a failure has gone through resolve_success on a cell that was resolved,
\* and nothing was called
C15_Witness ==
    \E c \in Cells :
        /\ fUse[c] = "resolve_success" /\ Quiet
        /\ IsSome(setArg[c]) /\ ~setArg[c][1].ok
        /\ result[c] = None /\ callback[c] = None
        /\ calls = <<>>

\* a failure has been handed to the callback of resolve_err
C15_WitnessCalled ==
    \E c \in Cells :
        /\ fUse[c] = "resolve_err" /\ Quiet
        /\ CallsOf(c) = <<[id |-> c, r |-> Err(<<10, 11>>), t |-> Main]>>

\* C19: the Future of run(f) hands the caller exactly what f returned on the
\* worker, whatever the interleaving of the worker's set_result with the
\* caller's resolve or await, and neither thread panics
C19_RunDelivers ==
    \A c \in Cells :
        made[c] = "run" =>
            /\ \A t \in Threads : status[t] = "run"
            /\ \A i \in 1..Len(CallsOf(c)) : Some(CallsOf(c)[i].r) = setArg[c]
            /\ (Quiet /\ fUse[c] = "resolve") => Len(CallsOf(c)) = 1
            /\ (Quiet /\ fUse[c] \in {"await", "await_safe"})
                  => ret[Main] = Some(Got(c, fUse[c], setArg[c][1]))

\* C19 under the design of future.rs
C19_RunDeliversFlag == design = "flag" => C19_RunDelivers

\* the caller's await on the Future of run has returned what f returned
C19_Witness ==
    \E c \in Cells :
        /\ made[c] = "run" /\ Quiet
        /\ ret[Main] = Some(Got(c, "await", Ok(5)))

\* ------------------------------------------------------- join and collect
\* the Futures the program made itself, in the order of their making: the
\* arguments of the join, the items of the iterator
Inputs  == {c \in Cells : made[c] = "new"}
NInputs == Cardinality(Inputs)

\* the inputs that resolved to a failure, and the one of lowest index
Failing   == {c \in Inputs : IsSome(setArg[c]) /\ ~setArg[c][1].ok}
FirstFail == Lowest(Failing)

AllOk == \A c \in Inputs : IsSome(setArg[c]) /\ setArg[c][1].ok

\* the success values of the inputs in their order
InOrder == [i \in 1..NInputs |-> setArg[i][1].v]

\* the program has called join2 / join3; the Future it got is that of the
\* cell after the inputs
IsJoin     == opOf[NInputs + 1] = "and_thenf" /\ up[NInputs + 1] = 1
JoinResult == NInputs + 1

\* cell g gathers the inputs: it holds nothing but the ordered successes of
\* all inputs or the failure of the lowest failing one, and holds it once
\* every call is over and the inputs it depends on have resolved
Gathers(g) ==
    /\ (IsSome(setArg[g]) /\ setArg[g][1].ok)
          => (AllOk /\ setArg[g][1].v = InOrder)
    /\ (IsSome(setArg[g]) /\ ~setArg[g][1].ok)
          => (Failing /= {} /\ setArg[g][1].e = setArg[FirstFail][1].e)
    /\ (Quiet /\ AllOk) => setArg[g] = Some(Ok(InOrder))
    /\ (Quiet /\ Failing /= {} /\ \A c \in Inputs : IsSome(setArg[c]))
          => setArg[g] = Some(Err(setArg[FirstFail][1].e))
    /\ \A r \in Delivered(g) : Some(r) = setArg[g]

\* C16: join_N resolves to the tuple of the successes in argument order when
\* every input succeeds, and to the failure of the lowest-index failing
\* input when all inputs resolve and one fails
C16_Join == IsJoin => Gathers(JoinResult)

\* join3 of three Futures resolved beforehand to Ok(5), Err(e) and Ok(0)
\* has handed Err(e) to the callback
C16_Witness ==
    /\ IsJoin /\ NInputs = 3 /\ Quiet
    /\ setArg[1] = Some(Ok(5)) /\ setArg[2] = Some(Err(<<10, 11>>))
    /\ setArg[3] = Some(Ok(0))
    /\ early[1] /\ early[2]
    /\ CallsOf(JoinResult) /= <<>>
    /\ CallsOf(JoinResult)[1].r = Err(<<10, 11>>)

\* join3 of three Futures resolved to 5, 0 and 5 after the join, the last
\* one first, has handed the tuple (5, 0, 5) to the callback
C16_WitnessTuple ==
    /\ IsJoin /\ NInputs = 3 /\ Quiet
    /\ \A c \in Inputs : made[c] = "new" /\ ~early[c]
    /\ CallsOf(JoinResult) /= <<>>
    /\ CallsOf(JoinResult)[1].r = Ok(<<5, 0, 5>>)

\* C17: once an input has failed and the inputs before it have succeeded,
\* the joined Future holds that failure when every call is over, whether
\* or not the later inputs ever resolve
C17_NoAwaitAfterFailure ==
    IsJoin =>
        \A c \in Failing :
            (Quiet /\ \A b \in Inputs : b < c => (IsSome(setArg[b]) /\ setArg[b][1].ok))
                => setArg[JoinResult] = Some(Err(setArg[c][1].e))

\* the first input succeeded, the second failed, the setter of the third is
\* still unused, and the failure has reached the callback of the join
C17_Witness ==
    /\ IsJoin /\ NInputs = 3 /\ Quiet
    /\ setArg[1] = Some(Ok(5)) /\ setArg[2] = Some(Err(<<0>>))
    /\ setArg[3] = None /\ sOwner[3] = Main /\ sUse[3] = ""
    /\ CallsOf(JoinResult) = <<[id |-> JoinResult, r |-> Err(<<0>>), t |-> Main]>>

\* the operations whose user function returns a Future
FutureOps == {"and_thenf", "transformf", "rescuef"}

\* C13: the Future of and_thenf / transformf / rescuef is resolved only with
\* the outcome of the Future the user function returned, and so only once
\* that one is resolved: while it is pending nothing is published into the
\* outer cell and nothing is delivered
C13_ResolvesWithInner ==
    \A c \in Cells :
        opOf[c] \in FutureOps =>
            /\ IsSome(setArg[c])
                  => (inner[c] /= 0 /\ setArg[inner[c]] = setArg[c])
            /\ (inner[c] /= 0 /\ setArg[inner[c]] = None)
                  => (setArg[c] = None /\ result[c] = None /\ Delivered(c) = {})
            /\ \A r \in Delivered(c) : inner[c] /= 0 /\ Some(r) = setArg[inner[c]]

\* the upstream of the join has succeeded, the Future its user function
\* returned is pending, and the callback handed to the joined Future is
\* installed and has not run
C13_Witness ==
    \E c \in Cells :
        /\ opOf[c] \in FutureOps /\ Quiet
        /\ IsSome(setArg[up[c]]) /\ setArg[up[c]][1].ok
        /\ inner[c] /= 0 /\ setArg[inner[c]] = None /\ sUse[inner[c]] = ""
        /\ fUse[c] = "resolve" /\ callback[c] /= None
        /\ setArg[c] = None /\ calls = <<>>

\* the Future the user function returned was resolved later, and the same
\* outcome went through the outer Future to the callback
C13_WitnessLater ==
    \E c \in Cells :
        /\ opOf[c] \in FutureOps /\ Quiet
        /\ inner[c] /= 0 /\ up[inner[c]] /= 0 /\ ~early[up[inner[c]]]
        /\ IsSome(setArg[c]) /\ setArg[c] = setArg[inner[c]]
        /\ CallsOf(c) /= <<>> /\ Some(CallsOf(c)[1].r) = setArg[c]

\* C20: when the Future the user function returned is abandoned, nothing is
\* ever published into the outer cell, no callback handed to the outer
\* Future runs, and await_safe on it is not left blocked and returns
\* Err(DroppedSetterError)
C20_InnerAbandoned ==
    \A c \in Cells :
        (opOf[c] \in FutureOps /\ inner[c] /= 0 /\ sUse[inner[c]] = "drop") =>
            /\ setArg[c] = None
            /\ Delivered(c) = {}
            /\ \A t \in Threads :
                  /\ Waiting(t, c, "await_safe") => chanTx[t] = "dropped"
                  /\ (Quiet /\ fUse[c] = "await_safe" /\ t = Main)
                        => ret[t] = Some(DroppedSetterError(c, "await_safe"))

\* the second input of a join was abandoned after the first had succeeded,
\* and await_safe on the joined Future has returned Err(DroppedSetterError)
C20_Witness ==
    /\ IsJoin /\ Quiet
    /\ setArg[1] = Some(Ok(0)) /\ sUse[2] = "drop"
    /\ inner[JoinResult] /= 0 /\ sUse[inner[JoinResult]] = "drop"
    /\ ret[Main] = Some(DroppedSetterError(JoinResult, "await_safe"))

\* C18: the Future collected from a sequence of Futures resolves to the
\* sequence of their successes in input order when all succeed, and to the
\* failure of the first failing input in iteration order otherwise
C18_Collect == \A c \in Cells : opOf[c] = "collect" => Gathers(c)

\* two Futures resolved after the collection, the second one first, to 0
\* and 5: the callback has got the sequence (5, 0) of the input order
C18_Witness ==
    \E c \in Cells :
        /\ opOf[c] = "collect" /\ Quiet
        /\ made[1] = "new" /\ made[2] = "new"
        /\ setArg[1] = Some(Ok(5)) /\ setArg[2] = Some(Ok(0))
        /\ ~early[1] /\ ~early[2]
        /\ CallsOf(c) = <<[id |-> c, r |-> Ok(<<5, 0>>), t |-> Main]>>

\* both Futures failed, the second one first: the callback has got the
\* failure of the first
C18_WitnessFailure ==
    \E c \in Cells :
        /\ opOf[c] = "collect" /\ Quiet
        /\ setArg[1] = Some(Err(<<0>>)) /\ setArg[2] = Some(Err(<<10, 11>>))
        /\ ~early[1]
        /\ CallsOf(c) = <<[id |-> c, r |-> Err(<<0>>), t |-> Main]>>

\* ----------------------------------------------------- the cell's protocol
\* C21: no callback runs while the thread that invokes it holds the mutex
\* of the cell the callback was handed to: the mutex is released before
\* user code is entered
C21_LockReleased ==
    \A t \in Threads : \A i \in 1..Len(stack[t]) :
        (stack[t][i].op = "call" /\ stack[t][i].pc = "start")
            => lock[stack[t][i].f[1].on] /= t

\* resolve was called on the Future of c and is past its critical section
Installed(c) ==
    /\ fUse[c] \notin {"", "drop"}
    /\ ~\E t \in Threads : \E i \in 1..Len(stack[t]) :
          /\ stack[t][i].op = "resolve" /\ stack[t][i].c = c
          /\ stack[t][i].pc \in {"lock", "body"}

\* C22: a callback runs inside the call of the side that arrived second, on
\* that side's thread and before that call returns: inside resolve when the
\* result was published first, inside set_result when the callback was
\* installed first
C22_SecondSideRuns ==
    \A t \in Threads : \A i \in 1..Len(stack[t]) :
        stack[t][i].op = "call" =>
            /\ i > 1
            /\ LET c == stack[t][i].f[1].on
                   b == stack[t][i - 1]
               IN  /\ b.c = c /\ b.pc = "unlock"
                   /\ \/ b.op = "resolve" /\ Published(c)
                      \/ b.op = "set_result" /\ Installed(c)

\* C22, the other direction: a resolve that comes after the result was
\* published, and a set_result that comes after the callback was installed,
\* has invoked the callback by the time it leaves its critical section
C22_InvokedInside ==
    \A t \in Threads : \A i \in 1..Len(stack[t]) :
        LET b == stack[t][i]
        IN  (b.op \in {"resolve", "set_result"} /\ b.pc \in CleanupPcs
               /\ fUse[b.c] = "resolve" /\ Published(b.c) /\ Installed(b.c))
                => Claimed(b.c)

\* C22 in the design of future.rs
C22_InvokedInsideFlag == design = "flag" => C22_InvokedInside

\* the worker runs the callback inside its set_result, the main thread
\* having installed it and returned
C22_Witness ==
    \E t \in Threads \ {Main} : \E c \in Cells :
        /\ Len(stack[t]) = 2 /\ stack[t][2].op = "call"
        /\ stack[t][2].f[1] = Terminal(c)
        /\ stack[t][1].op = "set_result" /\ stack[t][1].c = c
        /\ stack[Main] = <<>> /\ fUse[c] = "resolve"

\* the main thread runs the callback inside its resolve, the result having
\* been published by the worker
C22_WitnessResolve ==
    \E c \in Cells :
        /\ Len(stack[Main]) = 2 /\ stack[Main][2].op = "call"
        /\ stack[Main][2].f[1] = Terminal(c)
        /\ stack[Main][1].op = "resolve" /\ setLate[c] = NoThread
        /\ made[c] = "run"

\* C23: a cell never holds a stored result and a stored callback together
C23_OneContribution ==
    \A c \in Cells : ~(IsSome(result[c]) /\ IsSome(callback[c]))

\* both sides have been through their critical sections, in either order,
\* and the cell is empty again
C23_Witness ==
    \E c \in Cells :
        /\ Published(c) /\ Installed(c) /\ fUse[c] = "resolve"
        /\ result[c] = None /\ callback[c] = None
        /\ CallsOf(c) /= <<>>

\* C24: once the callback of a cell has been fired, or one of its handles
\* was dropped before contributing, no step stores a result or a callback
\* in the cell, fires a callback of it or takes it to the other terminal state
C24_TerminalOnce ==
    [][\A c \in Cells :
          (CallsOf(c) /= <<>> \/ SetterAbandoned(c) \/ FutureAbandoned(c))
              => /\ result'[c] \in {result[c], None}
                 /\ callback'[c] \in {callback[c], None}
                 /\ CallsOf(c)' = CallsOf(c)
                 /\ CallsOf(c) /= <<>>
                       => (sUse'[c] /= "drop" /\ fUse'[c] /= "drop")]_vars

\* C24 in the design of future.rs
C24_TerminalOnceFlag ==
    [][(design = "flag") =>
          \A c \in Cells :
              (CallsOf(c) /= <<>> \/ SetterAbandoned(c) \/ FutureAbandoned(c))
                  => /\ result'[c] \in {result[c], None}
                     /\ callback'[c] \in {callback[c], None}
                     /\ CallsOf(c)' = CallsOf(c)
                     /\ CallsOf(c) /= <<>>
                           => (sUse'[c] /= "drop" /\ fUse'[c] /= "drop")]_vars

\* C25: set_result on a cell whose Future was already dropped without a
\* callback leaves the result slot empty, and resolve on a cell whose setter
\* was already dropped without publishing leaves the callback slot empty
C25_DiscardOnAbandoned ==
    [][\A t \in Threads :
          (stack[t] /= <<>> /\ status[t] = "run" /\ Top(t).pc = "body")
              => /\ (Top(t).op = "set_result" /\ FutureAbandoned(Top(t).c))
                       => result'[Top(t).c] = None
                 /\ (Top(t).op = "resolve" /\ SetterAbandoned(Top(t).c))
                       => callback'[Top(t).c] = None]_vars

\* C25 in the design of future.rs, where the liveness flag is consulted
C25_DiscardOnAbandonedFlag ==
    [][design = "flag" =>
          \A t \in Threads :
              (stack[t] /= <<>> /\ status[t] = "run" /\ Top(t).pc = "body")
                  => /\ (Top(t).op = "set_result" /\ FutureAbandoned(Top(t).c))
                           => result'[Top(t).c] = None
                     /\ (Top(t).op = "resolve" /\ SetterAbandoned(Top(t).c))
                           => callback'[Top(t).c] = None]_vars

\* C26: the liveness flag of a cell is true when the cell is made, and from
\* then on it changes only from true to false, in the Drop of one of the
\* two handles; it never goes back to true
C26_FlagOneWay ==
    [][\A c \in Cells :
          /\ (design = "flag" /\ nextCell = c /\ nextCell' > c) => alive'[c]
          /\ (c < nextCell /\ alive'[c]) => alive[c]
          /\ (alive[c] /\ ~alive'[c])
                => \E t \in Threads :
                      /\ stack[t] /= <<>> /\ Top(t).c = c
                      /\ Top(t).pc = "dunlock"]_vars

\* the flag of a pair went false with the setter, and stays so while the
\* Future is consumed in turn
C26_Witness ==
    \E c \in Cells : \E t \in Threads :
        /\ design = "flag" /\ c < nextCell /\ ~alive[c]
        /\ sUse[c] = "set_result" /\ ~InFlight(c, {"set_result"})
        /\ stack[t] /= <<>> /\ Top(t).c = c /\ Top(t).op = "resolve"
        /\ Top(t).pc = "drop"

\* C27: when the outcome an observer is for has reached the Future that
\* on_completion, on_success or on_err returned (it is stored there, a
\* callback installed there is running or has run, or an operation derived
\* from it has acted), the observer has already run and returned
C27_ObserverFirst ==
    \A c \in Cells :
        (/\ opOf[c] \in Observers /\ IsSome(setArg[up[c]])
         /\ Observes(opOf[c], setArg[up[c]][1])
         /\ \/ IsSome(result[c]) \/ CallbackRunning(c) \/ Delivered(c) /= {}
            \/ \E d \in Cells : up[d] = c /\ (d \in fnCalled \/ IsSome(setArg[d])))
            => c \in fnCalled

\* the callback installed on the Future on_err returned is running on the
\* failure, after the three observers of the chain
C27_Witness ==
    \E c \in Cells :
        /\ OpsTo(c) = ObserverChain /\ CallbackRunning(c)
        /\ c \in fnCalled /\ up[up[c]] \in fnCalled
        /\ ~setArg[c][1].ok

\* C28: whenever resolve or set_result is about to call unwrap_unsafe on a
\* slot, the slot holds a value and the caller's handle is the only strong
\* reference to it
C28_UnwrapSafe ==
    \A t \in Threads :
        (design = "lib" /\ stack[t] /= <<>> /\ status[t] = "run"
           /\ Top(t).pc = "body")
            => /\ (Top(t).op = "resolve" /\ IsSome(result[Top(t).c]))
                     => rRefs[Top(t).c] = {"F"}
               /\ (Top(t).op = "set_result" /\ IsSome(callback[Top(t).c]))
                     => cRefs[Top(t).c] = {"S"}

\* C29: no deadlock in a pipeline whose producer and consumer run on two
\* threads: again and again no call is in progress on any thread, so every
\* set_result, resolve and drop that was begun comes to its end, by returning
\* or by unwinding, and no Lock waits forever; a thread in await's recv and
\* an aborted process count as at rest
C29_NoDeadlock ==
    []<>(\A t \in Threads :
            stack[t] = <<>> \/ aborted \/ Top(t).pc = "recv")

\* the consumer waits for the mutex of the derived cell while the producer,
\* still inside set_result on the root, publishes into that cell from the
\* callback
C29_Witness ==
    \E t \in Threads \ {Main} : \E c \in Cells :
        /\ stack[Main] /= <<>> /\ Top(Main).pc \in {"lock", "dlock"}
        /\ Top(Main).c = c /\ lock[c] = t
        /\ Len(stack[t]) = 3 /\ stack[t][1].op = "set_result"
        /\ stack[t][1].pc = "unlock" /\ lock[stack[t][1].c] = t
        /\ stack[t][2].op = "call"
        /\ stack[t][3].op = "set_result" /\ stack[t][3].c = c

\* C30: when the setter at the root of a chain is dropped without
\* publishing, no user function of the chain is called and nothing is
\* published into any of its Futures; await_safe on the tail returns
\* Err(DroppedSetterError) and nothing else, and it does return: it is not
\* left waiting for ever, whether the chain was built before the drop or
\* after it
C30_AbandonPropagates ==
    /\ [](\A c \in Cells :
            (opOf[c] \in DerivedOps /\ sUse[RootOf(c)] = "drop")
                => /\ c \notin fnCalled /\ setArg[c] = None
                   /\ \A t \in Threads :
                         (IsSome(ret[t]) /\ ret[t][1].c = c)
                             => ret[t][1] = DroppedSetterError(c, "await_safe"))
    /\ []<>(\A c \in Cells :
              (opOf[c] \in DerivedOps /\ sUse[RootOf(c)] = "drop")
                  => ~InFlight(c, {"await_safe"}))

\* await_safe on the tail of a chain whose root was abandoned has returned
\* the error
C30_Witness ==
    \E c \in Cells :
        /\ opOf[c] \in DerivedOps /\ SetterAbandoned(RootOf(c))
        /\ ret[Main] = Some(DroppedSetterError(c, "await_safe"))

\* the chain is being built on a root whose setter is already gone
C30_WitnessAfter ==
    \E c \in Cells :
        /\ opOf[c] \in DerivedOps /\ SetterAbandoned(up[c])
        /\ stack[Main] /= <<>> /\ stack[Main][1].op = "derive"
        /\ stack[Main][1].c = c

\* the setter is dropped by the other thread while await_safe waits on the
\* tail of the chain built before
C30_WitnessBefore ==
    \E c \in Cells :
        /\ opOf[c] \in DerivedOps /\ InFlight(up[c], {"dropS"})
        /\ Waiting(Main, c, "await_safe") /\ chanTx[Main] = "live"

\* C31: a derived operation applied to a Future that is resolved runs its
\* closure inside the call: the call does not panic unless the user function
\* does, and when it returns the user function has been called if the
\* closure has an arm for the outcome and the returned Future is resolved;
\* applied to a Future nobody has published into, it returns with no user
\* function called and the returned Future unresolved
C31_Synchronous ==
    \A t \in Threads :
        (stack[t] /= <<>> /\ stack[t][1].op = "derive") =>
            LET n == stack[t][1].c
                c == up[n]
            IN  /\ (early[c] /\ ~Panics(opOf[n], setArg[c][1])) =>
                      /\ status[t] = "run"
                      /\ Len(stack[t]) = 1 =>
                            /\ IsSome(result[n])
                            /\ n \in fnCalled <=> CallsUser(opOf[n], setArg[c][1])
                /\ (setArg[c] = None /\ Len(stack[t]) = 1) =>
                      /\ n \notin fnCalled
                      /\ result[n] = None /\ setArg[n] = None

\* C31 in the design of future.rs
C31_SynchronousFlag == design = "flag" => C31_Synchronous

\* map returns on a Future the worker had published into: its function has
\* run and the Future it returns is resolved
C31_Witness ==
    \E n \in Cells :
        /\ stack[Main] = <<Frame("derive", n, "ret", None, None)>>
        /\ opOf[n] = "map" /\ early[up[n]] /\ made[up[n]] = "new"
        /\ n \in fnCalled /\ IsSome(result[n])

\* and_thenf returns on an unpublished Future
C31_WitnessUnresolved ==
    \E n \in Cells :
        /\ stack[Main] = <<Frame("derive", n, "ret", None, None)>>
        /\ opOf[n] = "and_thenf" /\ setArg[up[n]] = None
        /\ result[n] = None

\* C32: while an input is pending and no input before it has failed, the
\* Future of join_N and of the collection is unresolved, whatever the later
\* inputs have done: nothing is published into it and nothing is delivered;
\* and when it fails it fails with the failure of the lowest failing input,
\* not with one that came earlier in time
C32_WaitsForEarlier ==
    \A g \in Cells :
        (\/ g = NInputs + 1 /\ opOf[g] = "and_thenf" /\ made[g] = "derived"
         \/ opOf[g] = "collect") =>
            /\ (\E p \in Inputs :
                   /\ setArg[p] = None
                   /\ \A f \in Failing : p < f)
                  => (setArg[g] = None /\ result[g] = None /\ Delivered(g) = {})
            /\ (IsSome(setArg[g]) /\ ~setArg[g][1].ok)
                  => (Failing /= {} /\ setArg[g][1].e = setArg[FirstFail][1].e)

\* the second input of a join has failed, the first is pending, and the
\* callback handed to the joined Future is installed and has not run
C32_Witness ==
    /\ IsJoin /\ Quiet /\ NInputs = 2
    /\ setArg[1] = None /\ sOwner[1] = Main
    /\ setArg[2] = Some(Err(<<10, 11>>)) /\ IsSome(result[2])
    /\ fUse[JoinResult] = "resolve" /\ IsSome(callback[JoinResult])
    /\ calls = <<>>

\* the first input failed afterwards with another failure, and that one
\* has reached the callback
C32_WitnessEarlierWins ==
    /\ IsJoin /\ Quiet /\ NInputs = 2
    /\ ~early[1] /\ setLate[2] = NoThread
    /\ setArg[1] = Some(Err(<<0>>)) /\ setArg[2] = Some(Err(<<10, 11>>))
    /\ CallsOf(JoinResult) = <<[id |-> JoinResult, r |-> Err(<<0>>), t |-> Main]>>

\* C33: once join_N or the collection has short-circuited on the failure of
\* an input, a set_result on a later input, whose Future went with the
\* closure, does not panic and does not block, calls no user function (no
\* operation was ever applied to that input), and the aggregate keeps the
\* failure it has, delivered at most once
C33_LateInput ==
    \A g \in Cells : \A c \in Inputs :
        (/\ \/ g = NInputs + 1 /\ opOf[g] = "and_thenf" /\ made[g] = "derived"
            \/ opOf[g] = "collect"
         /\ Failing /= {} /\ FirstFail < c
         /\ \A b \in Inputs : b < FirstFail => IsSome(setArg[b])
         /\ setLate[c] /= NoThread) =>
            /\ status[setLate[c]] = "run" /\ ~aborted
            /\ NotBlocked(setLate[c])
            /\ c \notin fnCalled /\ \A d \in Cells : up[d] /= c
            /\ ~CallbackRunning(c)
            /\ setArg[g] \in {None, Some(Err(setArg[FirstFail][1].e))}
            /\ (Quiet /\ plan = <<>>)
                  => setArg[g] = Some(Err(setArg[FirstFail][1].e))
            /\ Len(CallsOf(g)) <= 1
            /\ \A r \in Delivered(g) : Some(r) = setArg[g]
            /\ (Quiet /\ fUse[g] = "resolve") => Len(CallsOf(g)) = 1

\* join3: the second input failed, the failure was delivered, and then the
\* third input was published into; its call is over
C33_Witness ==
    /\ IsJoin /\ NInputs = 3 /\ Quiet
    /\ setArg[1] = Some(Ok(5)) /\ setArg[2] = Some(Err(<<0>>))
    /\ setArg[3] = Some(Ok(0)) /\ setLate[3] = Main
    /\ CallsOf(JoinResult) = <<[id |-> JoinResult, r |-> Err(<<0>>), t |-> Main]>>

\* the same with a collection of two: the first failed, the second was
\* published into afterwards
C33_WitnessCollect ==
    \E g \in Cells :
        /\ opOf[g] = "collect" /\ Quiet
        /\ setArg[1] = Some(Err(<<0>>)) /\ setLate[2] = Main
        /\ CallsOf(g) = <<[id |-> g, r |-> Err(<<0>>), t |-> Main]>>

\* C34: the collection of an empty sequence of Futures is returned already
\* resolved, to the success of an empty collection: when from_iter returns
\* its Future holds Ok of the empty sequence, the fold started from
\* value(vec![]) having taken no round, and whoever consumes it afterwards
\* gets that outcome
C34_EmptyCollect ==
    \A g \in Cells :
        (opOf[g] = "collect" /\ made[up[g]] = "vec") =>
            /\ status[Main] = "run" /\ ~aborted
            /\ early[up[g]]
            /\ (\A i \in 1..Len(stack[Main]) :
                    ~(stack[Main][i].op = "derive" /\ stack[Main][i].c = g /\ i < Len(stack[Main])))
               => /\ setArg[g] = Some(Ok(<<>>))
                  /\ (fOwner[g] = Main /\ stack[Main] = <<Frame("derive", g, "ret", None, None)>>)
                        => result[g] = Some(Ok(<<>>))
                  /\ (fOwner[g] = Main /\ Idle(Main)) => result[g] = Some(Ok(<<>>))
            /\ \A r \in Delivered(g) : r = Ok(<<>>)

\* from_iter is about to return the Future collected from no item, and the
\* Future holds Ok(())
C34_Witness ==
    \E g \in Cells :
        /\ opOf[g] = "collect" /\ made[up[g]] = "vec" /\ Inputs = {}
        /\ stack[Main] = <<Frame("derive", g, "ret", None, None)>>
        /\ result[g] = Some(Ok(<<>>))

\* the Future collected from no item was resolved with a callback, which ran
\* inside resolve with Ok of the empty sequence
C34_WitnessConsumed ==
    \E g \in Cells :
        /\ opOf[g] = "collect" /\ made[up[g]] = "vec" /\ Quiet
        /\ CallsOf(g) = <<[id |-> g, r |-> Ok(<<>>), t |-> Main]>>

\* C35: in the design with the liveness flag, a handle consumed by its
\* terminal operation has marked the cell not alive once the call is over
\* (its Drop runs when resolve / set_result returns), and the flag being
\* false never suppresses a delivery: set_result that finds a stored
\* callback invokes it with its result, and resolve that finds a stored
\* result hands it to its callback, whatever the flag says
C35_ConsumedStillDelivers ==
    /\ [](\A c \in Cells :
            (design = "flag" /\ ~aborted /\ ~poisoned[c]) =>
                /\ (fUse[c] = "resolve" /\ ~InFlight(c, {"resolve"})) => ~alive[c]
                /\ (sUse[c] = "set_result" /\ ~InFlight(c, {"set_result"}))
                      => ~alive[c])
    /\ [][\A t \in Threads :
            (/\ design = "flag" /\ stack[t] /= <<>> /\ status[t] = "run"
             /\ Top(t).pc = "body" /\ stack'[t] /= stack[t]) =>
                /\ (Top(t).op = "set_result" /\ IsSome(callback[Top(t).c]))
                      => stack'[t][Len(stack'[t])]
                            = CallFrame(callback[Top(t).c], Top(t).v)
                /\ (Top(t).op = "resolve" /\ IsSome(result[Top(t).c]))
                      => stack'[t][Len(stack'[t])]
                            = CallFrame(Top(t).f, result[Top(t).c])]_vars

\* resolve stored its callback and returned, its Drop has set the flag to
\* false; set_result came later, found the callback and is running it
C35_Witness ==
    \E c \in Cells : \E t \in Threads :
        /\ design = "flag" /\ ~alive[c]
        /\ fUse[c] = "resolve" /\ ~InFlight(c, {"resolve"})
        /\ Len(stack[t]) = 2
        /\ stack[t][1].op = "set_result" /\ stack[t][1].c = c
        /\ stack[t][1].pc = "unlock" /\ lock[c] = t
        /\ stack[t][2].op = "call"
        /\ CallsOf(c) = <<>>

\* set_result stored its result and returned, its Drop has set the flag to
\* false; resolve came later, took the result and is running its callback
C35_WitnessResolve ==
    \E c \in Cells : \E t \in Threads :
        /\ design = "flag" /\ ~alive[c]
        /\ sUse[c] = "set_result" /\ ~InFlight(c, {"set_result"})
        /\ Len(stack[t]) = 2
        /\ stack[t][1].op = "resolve" /\ stack[t][1].c = c
        /\ stack[t][1].pc = "unlock" /\ lock[c] = t
        /\ stack[t][2].op = "call" /\ stack[t][2].v = setArg[c]
        /\ CallsOf(c) = <<>>

\* both calls are over, the later one having found the flag false, and the
\* callback has run once with the result
C35_WitnessDelivered ==
    \E c \in Cells :
        /\ design = "flag" /\ ~alive[c] /\ Quiet
        /\ fUse[c] = "resolve" /\ sUse[c] = "set_result"
        /\ Len(CallsOf(c)) = 1 /\ CallsOf(c)[1].r = setArg[c][1]

====
